---- MODULE Spec2Model ----
(***************************************************************************)
(* CareOps orchestration core: the booking state machine                   *)
(* (app/services/booking_state_machine.py), the booking endpoints that     *)
(* write reservations (app/api/v1/endpoints/bookings.py), the automation   *)
(* trigger engine (app/services/automation_engine.py) and the periodic     *)
(* scheduler (app/services/scheduler.py).                                  *)
(*                                                                         *)
(* The relational store is modelled as reliable (a query or write does not *)
(* raise); the external channels (Google Calendar, Gmail, the WhatsApp     *)
(* bridge) are an environment that may succeed, be disconnected or fail.   *)
(* Request handlers and a scheduler tick run on one event loop and the     *)
(* store client is synchronous, so each handler is one atomic step; a      *)
(* transition request served by another worker process is two steps, its   *)
(* fetch and its update, and the booking-reminder scan of one of several   *)
(* schedulers is two steps, its query and its loop over the rows read.     *)
(* In the specification of the scheduler's loop a                          *)
(* scan may raise (its query or a client it builds fails). An execution of *)
(* the retry executor is one step per attempt and per backoff sleep.       *)
(* The inbox bookkeeping of a sent e-mail (messages, last_message_at) is   *)
(* outside the modelled state: it never touches a pause flag, a rule, a    *)
(* log row or a reservation.                                               *)
(***************************************************************************)
EXTENDS Integers, Sequences, FiniteSets, TLC

\* ---------------------------------------------------------------- bounds
MaxBookings == 1
MaxRules == 2
MaxLogs == 1
MaxTime == 36
TimeStep == 12
MaxRequests == 2
MaxSchedulers == 3
MaxTickLogs == 2

\* ------------------------------------------------------ program constants
ReminderWindowHours == 24
FormReminderAgeHours == 24

\* ------------------------------------------------------------ vocabulary
Workspaces == {"w1", "w2"}

PENDING == "pending"
CONFIRMED == "confirmed"
COMPLETED == "completed"
CANCELLED == "cancelled"
NO_SHOW == "no_show"

BookingStatus == {PENDING, CONFIRMED, COMPLETED, CANCELLED, NO_SHOW}

AutomationLogStatus == {"success", "failure", "skipped"}

\* A table in which a cancelled booking can be re-opened.
ReopeningTransitions ==
    [s \in BookingStatus |->
        CASE s = PENDING -> {CONFIRMED, CANCELLED}
          [] s = CONFIRMED -> {COMPLETED, CANCELLED, NO_SHOW}
          [] s = CANCELLED -> {PENDING}
          [] OTHER -> {}]

VALID_TRANSITIONS ==
    [s \in BookingStatus |->
        CASE s = PENDING -> {CONFIRMED, CANCELLED}
          [] s = CONFIRMED -> {COMPLETED, CANCELLED, NO_SHOW}
          [] OTHER -> {}]

Times == {t \in 0..MaxTime : t % TimeStep = 0}

\* The contacts table: c1 and c2 belong to w1 (c2 has no e-mail address),
\* c3 belongs to w2.
contacts ==
    [c \in {"c1", "c2", "c3"} |->
        CASE c = "c1" -> [workspace_id |-> "w1", email |-> "a@x", phone |-> "111", full_name |-> "Ann"]
          [] c = "c2" -> [workspace_id |-> "w1", email |-> "", phone |-> "", full_name |-> "Bob"]
          [] OTHER -> [workspace_id |-> "w2", email |-> "c@x", phone |-> "333", full_name |-> "Cy"]]

ContactIds == DOMAIN contacts

\* The conversations table (identity columns): contact c1 has two threads
\* (one per channel), c3 has one, c2 has none.
conversations ==
    [v \in {"v1", "v2", "v3"} |->
        CASE v = "v1" -> [workspace_id |-> "w1", contact_id |-> "c1"]
          [] v = "v2" -> [workspace_id |-> "w1", contact_id |-> "c1"]
          [] OTHER -> [workspace_id |-> "w2", contact_id |-> "c3"]]

ConversationIds == DOMAIN conversations

\* The active forms of each workspace (forms table): w1 has one, w2 none.
activeForms == [w \in Workspaces |-> IF w = "w1" THEN <<"f1">> ELSE <<>>]

Triggers == {"booking_confirmed", "booking_reminder", "form_submitted"}
Actions == {"send_email", "notify_owner", "distribute_form", "send_whatsapp",
            "pause_automation", "adjust_inventory"}

\* What an external channel does with one call.
ChannelOutcomes == {"ok", "not_connected", "error"}
GCalOutcomes == {"ok", "not_connected", "api_error", "service_error"}

VARIABLES
    bookings,     \* bookings table: booking id -> row
    gcal,         \* event ids present in the external calendar
    rules,        \* automation_rules table, in insertion order
    logs,         \* automation_logs table, in insertion order
    paused,       \* conversation ids with automation_paused = true
    submissions,  \* form_submissions table: <<form id, contact id>>
    inventory,    \* inventory_items table: item id -> quantity
    now,          \* the clock, in hours
    logStatusIsEnum, \* whether automation_logs.status is an enum column
    last,         \* observable outcome of the most recent operation
    task,         \* where the scheduler's background task stands
    requests,     \* transition requests in flight in other worker processes
    scans         \* booking-reminder scans in flight, one per scheduler instance

vars ==
    <<bookings, gcal, rules, logs, paused, submissions, now, logStatusIsEnum, last,
      task, requests, scans, inventory>>

\* Inventory: the items in stock and the items a service uses.
ItemIds == {"i1", "i2"}
NoService == ""
ServiceIds == {"s1"}
InitialStock == [i \in ItemIds |-> IF i = "i1" THEN 2 ELSE 1]
\* service_inventory rows: service s1 uses one unit of i1 and two of i2.
ServiceInventory == [s \in ServiceIds |-> <<[item_id |-> "i1", qty_per_use |-> 1], [item_id |-> "i2", qty_per_use |-> 2]>>]

\* A creation that leaves the stock alone.
DeductNothing(stock, links) == stock
\* deduct_inventory_for_service: for every link of the service the item's
\* quantity becomes max(0, quantity - qty_per_use).
RECURSIVE DeductInventoryForService(_, _)
DeductInventoryForService(stock, links) == IF links = <<>> THEN stock ELSE DeductInventoryForService([stock EXCEPT ![Head(links).item_id] = IF @ - Head(links).qty_per_use > 0 THEN @ - Head(links).qty_per_use ELSE 0], Tail(links))

BookingIds == 1..MaxBookings
RuleIds == 1..MaxRules
RequestIds == 1..MaxRequests

\* A worker that is handling no transition request.
IdleRequest == [pc |-> "idle"]

\* One scheduler per server process (the lifespan of the application
\* starts it).
SchedulerIds == 1..MaxSchedulers

\* A scheduler that is not inside its booking-reminder scan.
IdleScan == [pc |-> "idle"]


\* ------------------------------------------------------------ payloads
\* dict.get(key, "") on a payload whose values under key are strings.
PayloadGet(payload, key) == IF key \in DOMAIN payload THEN payload[key] ELSE ""

\* A flag test that asks for the key, whatever its value.
HasReminderKey(payload) == "_is_reminder" \in DOMAIN payload

\* payload.get("_is_reminder")
IsReminderPayload(payload) ==
    "_is_reminder" \in DOMAIN payload /\ payload["_is_reminder"] = TRUE

\* payload["_workspace_id"] = workspace_id
WithWorkspace(payload, workspace_id) ==
    [k \in DOMAIN payload \cup {"_workspace_id"} |->
        IF k = "_workspace_id" THEN workspace_id ELSE payload[k]]

InternalKeys == {"_workspace_id", "_is_reminder"}

\* A log row built from the payload as the actions saw it.
KeepPayload(payload) == payload

\* {k: v for k, v in payload.items() if not k.startswith("_")}
CleanPayload(payload) == [k \in DOMAIN payload \ InternalKeys |-> payload[k]]

\* ------------------------------------------------- AutomationEngine
\* The conversations of a contact in a workspace.
ConversationsOf(workspace_id, contact_id) ==
    {v \in ConversationIds :
        /\ conversations[v].workspace_id = workspace_id
        /\ conversations[v].contact_id = contact_id}

\* A gate that reads the flag of one conversation row of the contact only.
EnginePausedFirstRowOnly(pausedSet, workspace_id, contact_id) ==
    LET rows == ConversationsOf(workspace_id, contact_id)
    IN rows # {} /\ (CHOOSE v \in rows : TRUE) \in pausedSet

\* AutomationEngine._is_automation_paused: some conversation of the contact
\* in the workspace has automation_paused = true.
EngineIsAutomationPaused(pausedSet, workspace_id, contact_id) ==
    ConversationsOf(workspace_id, contact_id) \cap pausedSet # {}

\* A rule filter without the tenant.
RuleSelectedAnyTenant(r, workspace_id, trigger) == r.trigger = trigger /\ r.is_active

\* .eq("workspace_id", workspace_id).eq("trigger", trigger).eq("is_active", True)
RuleSelected(r, workspace_id, trigger) == r.workspace_id = workspace_id /\ r.trigger = trigger /\ r.is_active

\* select * from automation_rules where workspace_id, trigger, is_active
RECURSIVE SelectSeq2(_, _, _)
SelectSeq2(seq, workspace_id, trigger) ==
    IF seq = <<>> THEN <<>>
    ELSE LET r == Head(seq)
             rest == SelectSeq2(Tail(seq), workspace_id, trigger)
         IN IF RuleSelected(r, workspace_id, trigger)
            THEN <<r>> \o rest ELSE rest

\* A rule query without the is_active filter.
MatchingRulesAnyActive(ruleTable, workspace_id, trigger) ==
    SelectSeq2([i \in DOMAIN ruleTable |-> [ruleTable[i] EXCEPT !.is_active = TRUE]],
               workspace_id, trigger)

MatchingRules(ruleTable, workspace_id, trigger) ==
    SelectSeq2(ruleTable, workspace_id, trigger)

\* --------------------------------------------------- template rendering
\* A text is a sequence of pieces: a run of plain characters, or a
\* placeholder {{key}}. str(value) of a payload value is a text as well.
Plain(text) == [ph |-> FALSE, text |-> text]
Placeholder(key) == [ph |-> TRUE, text |-> key]

\* key.startswith("_")
IsInternalKey(key) == key \in InternalKeys

\* result.replace("{{key}}", str(value)): every occurrence, in one pass.
RECURSIVE ReplaceAll(_, _, _)
ReplaceAll(text, key, value) ==
    IF text = <<>> THEN <<>>
    ELSE (IF Head(text) = Placeholder(key) THEN value ELSE <<Head(text)>>)
         \o ReplaceAll(Tail(text), key, value)

\* AutomationEngine._render_template: one replace per payload item, in the
\* order of the items, skipping the keys that start with "_". items is the
\* payload as its sequence of [key, value].
RECURSIVE RenderTemplate(_, _)
RenderTemplate(template, items) ==
    IF items = <<>> THEN template
    ELSE LET result == IF IsInternalKey(Head(items).key) THEN template
                       ELSE ReplaceAll(template, Head(items).key, Head(items).value)
         IN RenderTemplate(result, Tail(items))

\* config.get(key, ""): the text configured under key, or the empty text.
ConfigGet(config, key) == IF key \in DOMAIN config THEN config[key] ELSE <<>>

\* The payload keys whose values are numbers; the other public values are
\* strings already.
NumberKeys == {"quantity", "booking_id", "booking_date", "booking_time"}

\* The keys of the payloads, in the order the callers insert them.
KeyOrder ==
    <<"contact_id", "contact_name", "contact_email", "contact_phone",
      "conversation_id", "booking_date", "booking_time", "booking_id",
      "item_name", "quantity", "form_title", "form_url", "_is_reminder",
      "_workspace_id">>

\* payload.items() with str(value) for the public keys.
PayloadItemsOf(payload) ==
    LET keys == SelectSeq(KeyOrder, LAMBDA k : k \in DOMAIN payload)
    IN [n \in DOMAIN keys |->
          [key |-> keys[n],
           value |-> IF IsInternalKey(keys[n]) THEN <<>>
                     ELSE IF keys[n] \in NumberKeys
                          THEN <<Plain(ToString(payload[keys[n]]))>>
                     ELSE <<Plain(payload[keys[n]])>>]]

\* A notification that carries the template as configured.
ActionSendNotificationUnrendered(config, payload) ==
    [status |-> "notified", message |-> ConfigGet(config, "message")]

\* AutomationEngine._action_send_notification
ActionSendNotification(config, payload) ==
    [status |-> "notified",
     message |-> RenderTemplate(ConfigGet(config, "message"), PayloadItemsOf(payload))]

\* AutomationEngine._render_template raises (AttributeError) when the
\* configured template is not a string and the payload has a public key.
RenderRaises(config, payload) ==
    ~config.template_is_str /\ (DOMAIN payload \ InternalKeys) # {}

\* GmailService.send_email as seen by the engine.
GmailResult(chan) ==
    CASE chan = "ok" -> [status |-> "sent"]
      [] chan = "not_connected" -> [status |-> "skipped", reason |-> "Gmail not connected"]
      [] OTHER -> [status |-> "error"]

\* AutomationEngine._execute_rule and the _action_* it dispatches to.
\* Gives [raised, result, paused]: whether the action raised, the result it
\* returned otherwise, and the pause flags after it.
ExecuteRule(rule, payload, chan, pausedSet) ==
    LET config == rule.action_config
        ws == PayloadGet(payload, "_workspace_id")
        ok(res) == [raised |-> FALSE, result |-> res, paused |-> pausedSet]
        raise == [raised |-> TRUE, result |-> [error |-> "exc"], paused |-> pausedSet]
    IN CASE rule.action = "send_email" ->
              IF RenderRaises(config, payload) THEN raise
              ELSE IF PayloadGet(payload, "contact_email") = ""
                   THEN ok([status |-> "skipped", reason |-> "no contact_email"])
              ELSE IF ws = ""
                   THEN ok([status |-> "logged"])
              ELSE ok(GmailResult(chan))
         [] rule.action \in {"send_notification", "notify_owner"} ->
              IF RenderRaises(config, payload) THEN raise
              ELSE ok(ActionSendNotification(config, payload))
         [] rule.action \in {"send_form", "distribute_form"} ->
              IF RenderRaises(config, payload) THEN raise
              ELSE IF PayloadGet(payload, "contact_email") = "" \/ ws = ""
                   THEN ok([status |-> "skipped", reason |-> "missing email or workspace"])
              ELSE IF activeForms[ws] = <<>>
                   THEN ok([status |-> "skipped", reason |-> "no active forms"])
              ELSE ok([k \in DOMAIN GmailResult(chan) \cup {"form_id"} |->
                          IF k = "form_id" THEN Head(activeForms[ws])
                          ELSE GmailResult(chan)[k]])
         [] rule.action = "send_whatsapp" ->
              IF RenderRaises(config, payload) THEN raise
              ELSE IF PayloadGet(payload, "contact_phone") = ""
                   THEN ok([status |-> "skipped", reason |-> "no contact_phone"])
              ELSE IF chan = "ok" THEN ok([success |-> TRUE])
              ELSE ok([success |-> FALSE, error |-> "exc"])
         [] rule.action = "pause_automation" ->
              LET conv == PayloadGet(payload, "conversation_id")
              IN IF conv # "" /\ ws # ""
                 THEN [raised |-> FALSE,
                       result |-> [status |-> "paused", conversation_id |-> conv],
                       paused |-> pausedSet \cup
                                    {v \in ConversationIds :
                                        v = conv /\ conversations[v].workspace_id = ws}]
                 ELSE ok([status |-> "logged"])
         [] OTHER -> ok([status |-> "skipped", reason |-> "Unknown action"])

\* AutomationEngine._log_execution: the row it builds.
LogData(rule, payload, status, result, at) ==
    [rule_id |-> rule.id,
     workspace_id |-> rule.workspace_id,
     status |-> status,
     trigger_payload |-> CleanPayload(payload),
     action_result |-> result,
     executed_at |-> at]

\* The insert of _log_execution: a row whose status is no member of the
\* automation-log status enum is rejected by an enum column (the rejection
\* is caught and logged) and stored by a text column.
LogInsert(logTable, row, statusIsEnum) ==
    IF row.status \in AutomationLogStatus \/ ~statusIsEnum
    THEN Append(logTable, row) ELSE logTable

\* The status fire_trigger logs for a rule whose action raised.
RaisedLogStatus == "error"

\* The loop of fire_trigger over the matching rules. acc carries the
\* returned list, the log table, the pause flags and the rules executed.
RECURSIVE RunRules(_, _, _, _, _, _)
RunRules(rs, payload, chans, statusIsEnum, at, acc) ==
    IF rs = <<>> THEN acc
    ELSE LET rule == Head(rs)
             config == rule.action_config
         IN IF config.is_reminder /\ ~IsReminderPayload(payload)
            THEN RunRules(Tail(rs), payload, chans, statusIsEnum, at, acc)
            ELSE LET ex == ExecuteRule(rule, payload, chans[rule.id], acc.paused)
                     row == IF ex.raised
                            THEN LogData(rule, payload, RaisedLogStatus, ex.result, at)
                            ELSE LogData(rule, payload, "success", ex.result, at)
                     acc2 == [results |-> IF ex.raised THEN acc.results
                                          ELSE Append(acc.results, row),
                              logs |-> LogInsert(acc.logs, row, statusIsEnum),
                              paused |-> ex.paused,
                              executed |-> Append(acc.executed, rule.id),
                              raisedRules |-> IF ex.raised
                                              THEN acc.raisedRules \cup {rule.id}
                                              ELSE acc.raisedRules]
                 IN RunRules(Tail(rs), payload, chans, statusIsEnum, at, acc2)

\* A gate that looks at the thread the payload names, not at the contact.
FireGatedByThread(pausedSet, workspace_id, payload) == PayloadGet(payload, "conversation_id") \in pausedSet
\* fire_trigger's pause gate: the payload names a contact and automation is
\* paused for that contact in the workspace.
FireGated(pausedSet, workspace_id, payload) == PayloadGet(payload, "contact_id") # "" /\ EngineIsAutomationPaused(pausedSet, workspace_id, PayloadGet(payload, "contact_id"))

\* AutomationEngine.fire_trigger. Gives the returned list, the tables after
\* the fire, the rules executed in order and whether the gate closed.
FireTrigger(workspace_id, trigger, payload, chans, statusIsEnum, ruleTable, logTable, pausedSet, at) ==
    LET contact_id == PayloadGet(payload, "contact_id")
        start == [results |-> <<>>, logs |-> logTable, paused |-> pausedSet,
                  executed |-> <<>>, raisedRules |-> {}]
    IN IF FireGated(pausedSet, workspace_id, payload)
       THEN [gated |-> TRUE, matched |-> <<>>] @@ start
       ELSE LET matched == MatchingRules(ruleTable, workspace_id, trigger)
            IN [gated |-> FALSE, matched |-> [i \in DOMAIN matched |-> matched[i].id]]
               @@ RunRules(matched, WithWorkspace(payload, workspace_id), chans,
                           statusIsEnum, at, start)

\* ------------------------------------------------------- GCalService
\* The id Google Calendar gives a new event of a booking (0 stands for None).
NewEventId(gcalSet, booking_id) ==
    booking_id * 10 + 1 + Cardinality({e \in gcalSet : e \div 10 = booking_id})

\* GCalService.create_event: [raised, event_id, bookings, gcal]. The service
\* lookup raises, or finds no integration (None), or the insert call errors
\* (caught, None), or the event is created and its id stored on the booking.
CreateEvent(bookingTable, gcalSet, booking_id, gc) ==
    LET unchanged(r, e) == [raised |-> r, event_id |-> e,
                            bookings |-> bookingTable, gcal |-> gcalSet]
    IN CASE gc = "service_error" -> unchanged(TRUE, 0)
         [] gc = "not_connected" -> unchanged(FALSE, 0)
         [] gc = "api_error" -> unchanged(FALSE, 0)
         [] OTHER ->
              LET e == NewEventId(gcalSet, booking_id)
              IN [raised |-> FALSE, event_id |-> e,
                  bookings |-> [bookingTable EXCEPT ![booking_id].gcal_event_id = e],
                  gcal |-> gcalSet \cup {e}]

\* GCalService.delete_event: [raised, deleted, gcal].
DeleteEvent(gcalSet, event_id, gc) ==
    CASE gc = "service_error" -> [raised |-> TRUE, deleted |-> FALSE, gcal |-> gcalSet]
      [] gc = "ok" -> [raised |-> FALSE, deleted |-> TRUE, gcal |-> gcalSet \ {event_id}]
      [] OTHER -> [raised |-> FALSE, deleted |-> FALSE, gcal |-> gcalSet]

\* ------------------------------------------------- BookingStateMachine
\* A validation that also lets a status be written over itself.
ValidTransitionOrSame(current_status, target_status) ==
    target_status \in VALID_TRANSITIONS[current_status] \/ target_status = current_status

\* BookingStateMachine.validate_transition
ValidTransition(current_status, target_status) ==
    target_status \in VALID_TRANSITIONS[current_status]

\* BookingStateMachine._on_confirmed: [effect, bookings, gcal]
OnConfirmed(bookingTable, gcalSet, booking_id, gc) ==
    LET ce == CreateEvent(bookingTable, gcalSet, booking_id, gc)
    IN [effect |-> IF ce.raised THEN [status |-> "failed", error |-> "exc"]
                   ELSE IF ce.event_id # 0
                        THEN [status |-> "created", gcal_event_id |-> ce.event_id]
                   ELSE [status |-> "skipped", reason |-> "gcal_not_connected"],
        bookings |-> ce.bookings,
        gcal |-> ce.gcal]

\* BookingStateMachine._on_cancelled: [effect, gcal]
OnCancelled(gcalSet, booking, gc) ==
    IF booking.gcal_event_id # 0
    THEN LET de == DeleteEvent(gcalSet, booking.gcal_event_id, gc)
         IN [effect |-> IF de.raised THEN [status |-> "failed", error |-> "exc"]
                        ELSE IF de.deleted
                             THEN [status |-> "deleted",
                                   gcal_event_id |-> booking.gcal_event_id]
                        ELSE [status |-> "failed",
                              gcal_event_id |-> booking.gcal_event_id],
             gcal |-> de.gcal]
    ELSE [effect |-> [status |-> "skipped", reason |-> "no_gcal_event_id"],
          gcal |-> gcalSet]

\* BookingStateMachine._execute_side_effects: [effects, bookings, gcal].
\* booking is the row the update returned.
ExecuteSideEffects(bookingTable, gcalSet, booking_id, booking, to_status, gc) ==
    CASE to_status = CONFIRMED ->
            LET oc == OnConfirmed(bookingTable, gcalSet, booking_id, gc)
            IN [effects |-> [gcal_sync |-> oc.effect,
                             confirmation_email |-> [status |-> "pending_implementation"]],
                bookings |-> oc.bookings, gcal |-> oc.gcal]
      [] to_status = COMPLETED ->
            [effects |-> [form_distribution |-> [status |-> "completed"]],
             bookings |-> bookingTable, gcal |-> gcalSet]
      [] to_status = CANCELLED ->
            LET oc == OnCancelled(gcalSet, booking, gc)
            IN [effects |-> [gcal_delete |-> oc.effect,
                             cancellation_notification |->
                                 [status |-> "pending_implementation"]],
                bookings |-> bookingTable, gcal |-> oc.gcal]
      [] to_status = NO_SHOW ->
            [effects |-> [no_show_notification |-> [status |-> "pending_implementation"]],
             bookings |-> bookingTable, gcal |-> gcalSet]
      [] OTHER ->
            [effects |-> <<>>, bookings |-> bookingTable, gcal |-> gcalSet]

\* An update filtered by id alone.
MatchedRowsAnyTenant(bookingTable, booking_id, workspace_id) ==
    {b \in DOMAIN bookingTable : b = booking_id}

\* The rows the update of transition matches: .eq(id).eq(workspace_id)
MatchedRows(bookingTable, booking_id, workspace_id) ==
    {b \in DOMAIN bookingTable :
        b = booking_id /\ bookingTable[b].workspace_id = workspace_id}

\* The row written by transition: the status, and the notes when given.
UpdatedRow(row, target_status, notes) ==
    [row EXCEPT !.status = target_status,
                !.notes = IF notes # "" THEN notes ELSE @]

\* BookingStateMachine.transition: [raised, err, booking, side_effects,
\* bookings, gcal]. 1. validate, 2. update scoped to (id, workspace),
\* 3. side effects, 4. result.
Transition(bookingTable, gcalSet, booking_id, workspace_id, current_status, target_status, notes, gc) ==
    LET fail(kind, err) ==
            [raised |-> kind, err |-> err, booking |-> <<>>, side_effects |-> <<>>,
             bookings |-> bookingTable, gcal |-> gcalSet]
    IN IF ~ValidTransition(current_status, target_status)
       THEN fail("InvalidTransitionError",
                 [current |-> current_status, target |-> target_status,
                  allowed |-> VALID_TRANSITIONS[current_status]])
       ELSE IF MatchedRows(bookingTable, booking_id, workspace_id) = {}
       THEN fail("ExternalServiceError", [message |-> "Failed to update booking"])
       ELSE LET updated == UpdatedRow(bookingTable[booking_id], target_status, notes)
                written == [bookingTable EXCEPT ![booking_id] = updated]
                se == ExecuteSideEffects(written, gcalSet, booking_id, updated,
                                         target_status, gc)
            IN [raised |-> "none", err |-> <<>>, booking |-> updated,
                side_effects |-> se.effects,
                bookings |-> se.bookings, gcal |-> se.gcal]

\* ------------------------------------------------------- input domains
\* Rules a tenant may configure: the seeded defaults the model uses, an
\* inactive rule, rules whose template value is not a string, an action
\* name the engine does not know, and a pause rule.
RuleShapes ==
    {[trigger |-> "booking_confirmed", action |-> "send_email", is_active |-> TRUE,
      action_config |-> [is_reminder |-> FALSE, template_is_str |-> TRUE]],
     [trigger |-> "booking_confirmed", action |-> "distribute_form", is_active |-> TRUE,
      action_config |-> [is_reminder |-> FALSE, template_is_str |-> TRUE]],
     [trigger |-> "booking_reminder", action |-> "send_email", is_active |-> TRUE,
      action_config |-> [is_reminder |-> FALSE, template_is_str |-> TRUE]],
     [trigger |-> "form_submitted", action |-> "send_email", is_active |-> TRUE,
      action_config |-> [is_reminder |-> TRUE, template_is_str |-> TRUE]],
     [trigger |-> "booking_confirmed", action |-> "send_email", is_active |-> FALSE,
      action_config |-> [is_reminder |-> FALSE, template_is_str |-> TRUE]],
     [trigger |-> "booking_confirmed", action |-> "notify_owner", is_active |-> TRUE,
      action_config |-> [is_reminder |-> FALSE, template_is_str |-> FALSE]],
     [trigger |-> "booking_reminder", action |-> "notify_owner", is_active |-> TRUE,
      action_config |-> [is_reminder |-> FALSE, template_is_str |-> FALSE]],
     [trigger |-> "booking_confirmed", action |-> "adjust_inventory", is_active |-> TRUE,
      action_config |-> [is_reminder |-> FALSE, template_is_str |-> TRUE]],
     [trigger |-> "booking_confirmed", action |-> "pause_automation", is_active |-> TRUE,
      action_config |-> [is_reminder |-> FALSE, template_is_str |-> TRUE]]}

\* Payloads of a manual trigger.
PayloadSamples ==
    {[contact_id |-> "c1", contact_email |-> "a@x"],
     [contact_email |-> "a@x", _is_reminder |-> TRUE],
     [contact_id |-> "c3"],
     [conversation_id |-> "v1"]}

ChannelChoices == [RuleIds -> ChannelOutcomes]

NoNotes == ""
NoteInputs == {NoNotes, "note"}

\* ---------------------------------------------------------------- Init
Init ==
    /\ bookings = <<>>
    /\ gcal = {}
    /\ rules = <<>>
    /\ logs = <<>>
    /\ paused = {}
    /\ submissions = {}
    /\ now = 0
    /\ logStatusIsEnum \in BOOLEAN
    /\ inventory = InitialStock
    /\ last = [op |-> "init"]
    /\ task = "startup"
    /\ requests = [r \in RequestIds |-> IdleRequest]
    /\ scans = [s \in SchedulerIds |-> IdleScan]

\* ------------------------------------------------ automation endpoints
\* create_automation_rule
CreateRule(workspace_id, shape) ==
    /\ Len(rules) < MaxRules
    /\ rules' = Append(rules,
                       [id |-> Len(rules) + 1, workspace_id |-> workspace_id] @@ shape)
    /\ last' = [op |-> "create_rule", rule_id |-> Len(rules) + 1]
    /\ UNCHANGED <<bookings, gcal, logs, paused, submissions, now, logStatusIsEnum, inventory, task, requests, scans>>

\* manual_trigger: runs fire_trigger as a background task.
ManualTrigger(workspace_id, trigger, payload, chans) ==
    /\ Len(logs) < MaxLogs
    /\ LET f == FireTrigger(workspace_id, trigger, payload, chans, logStatusIsEnum,
                            rules, logs, paused, now)
       IN /\ logs' = f.logs
          /\ paused' = f.paused
          /\ last' = [op |-> "fire", workspace_id |-> workspace_id,
                      trigger |-> trigger, payload |-> payload,
                      gated |-> f.gated, matched |-> f.matched,
                      executed |-> f.executed, raisedRules |-> f.raisedRules,
                      results |-> f.results, logsBefore |-> Len(logs),
                      raised |-> "none"]
    /\ UNCHANGED <<bookings, gcal, rules, submissions, now, logStatusIsEnum, inventory, task, requests, scans>>

\* reply_to_conversation: a staff reply pauses automation for the thread.
StaffReply(thread_id) ==
    /\ thread_id \notin paused
    /\ paused' = paused \cup {thread_id}
    /\ last' = [op |-> "staff_reply", thread_id |-> thread_id]
    /\ UNCHANGED <<bookings, gcal, rules, logs, submissions, now, logStatusIsEnum, inventory, task, requests, scans>>

\* ---------------------------------------------------- booking endpoints
\* The conflict query of create_booking: a non-cancelled booking of the
\* workspace with starts_at < new end and ends_at > new start.
Conflicts(bookingTable, workspace_id, starts_at, ends_at) ==
    {b \in DOMAIN bookingTable :
        /\ bookingTable[b].workspace_id = workspace_id
        /\ bookingTable[b].status # CANCELLED
        /\ bookingTable[b].starts_at < ends_at
        /\ bookingTable[b].ends_at > starts_at}

\* The payload create_booking hands to the booking_confirmed trigger.
CreatedPayload(booking_id, contact_id, starts_at) ==
    [booking_id |-> booking_id,
     contact_id |-> contact_id,
     contact_name |-> contacts[contact_id].full_name,
     contact_email |-> contacts[contact_id].email,
     booking_date |-> starts_at \div 24,
     booking_time |-> starts_at % 24]

\* create_booking: 404 for a contact of another workspace, 409 on a
\* conflict, else the insert (status pending) and the two background tasks
\* in the order they are queued: the booking_confirmed trigger, then the
\* calendar event.
CreateBooking(workspace_id, contact_id, starts_at, chans, gc) ==
    /\ Len(bookings) < MaxBookings
    /\ Len(logs) < MaxLogs
    /\ LET ends_at == starts_at + TimeStep
           id == Len(bookings) + 1
           row == [workspace_id |-> workspace_id, contact_id |-> contact_id,
                   status |-> PENDING, starts_at |-> starts_at, ends_at |-> ends_at,
                   notes |-> NoNotes, metadata |-> <<>>, gcal_event_id |-> 0]
       IN IF contacts[contact_id].workspace_id # workspace_id
          THEN /\ last' = [op |-> "create_booking", raised |-> "HTTP404"]
               /\ UNCHANGED <<bookings, gcal, logs, paused>>
          ELSE IF Conflicts(bookings, workspace_id, starts_at, ends_at) # {}
          THEN /\ last' = [op |-> "create_booking", raised |-> "HTTP409"]
               /\ UNCHANGED <<bookings, gcal, logs, paused>>
          ELSE LET f == FireTrigger(workspace_id, "booking_confirmed",
                                    CreatedPayload(id, contact_id, starts_at),
                                    chans, logStatusIsEnum, rules, logs, paused, now)
                   ce == CreateEvent(Append(bookings, row), gcal, id, gc)
               IN /\ bookings' = ce.bookings
                  /\ gcal' = ce.gcal
                  /\ logs' = f.logs
                  /\ paused' = f.paused
                  /\ last' = [op |-> "create_booking", raised |-> "none",
                              booking_id |-> id]
    /\ UNCHANGED <<rules, submissions, now, logStatusIsEnum, inventory, task, requests, scans>>

\* The payload create_public_booking hands to the booking_confirmed
\* trigger: the booking and the person as typed in, no contact id.
PublicPayload(booking_id, contact_id, starts_at) ==
    [booking_id |-> booking_id,
     contact_name |-> contacts[contact_id].full_name,
     contact_email |-> contacts[contact_id].email,
     booking_date |-> starts_at \div 24,
     booking_time |-> starts_at % 24]

\* create_public_booking by a person the workspace knows as contact_id:
\* 409 on a conflict, else the insert (status pending) and the tasks in
\* the order they are queued: the booking_confirmed trigger, then the
\* calendar event.
CreatePublicBooking(workspace_id, contact_id, starts_at, chans, gc) ==
    /\ Len(bookings) < MaxBookings
    /\ Len(logs) < MaxLogs
    /\ contacts[contact_id].workspace_id = workspace_id
    /\ LET ends_at == starts_at + TimeStep
           id == Len(bookings) + 1
           row == [workspace_id |-> workspace_id, contact_id |-> contact_id,
                   status |-> PENDING, starts_at |-> starts_at, ends_at |-> ends_at,
                   notes |-> "public", metadata |-> <<>>, gcal_event_id |-> 0]
       IN IF Conflicts(bookings, workspace_id, starts_at, ends_at) # {}
          THEN /\ last' = [op |-> "create_public_booking", raised |-> "HTTP409"]
               /\ UNCHANGED <<bookings, gcal, logs, paused>>
          ELSE LET f == FireTrigger(workspace_id, "booking_confirmed",
                                    PublicPayload(id, contact_id, starts_at),
                                    chans, logStatusIsEnum, rules, logs, paused, now)
                   ce == CreateEvent(Append(bookings, row), gcal, id, gc)
               IN /\ bookings' = ce.bookings
                  /\ gcal' = ce.gcal
                  /\ logs' = f.logs
                  /\ paused' = f.paused
                  /\ last' = [op |-> "create_public_booking", raised |-> "none",
                              booking_id |-> id]
    /\ UNCHANGED <<rules, submissions, now, logStatusIsEnum, inventory, task, requests, scans>>

\* What a transition leaves in last.
TransitionOutcome(via, booking_id, workspace_id, current_status, target_status, gc, t) ==
    [op |-> "transition", via |-> via, booking_id |-> booking_id,
     workspace_id |-> workspace_id, from |-> current_status, to |-> target_status,
     gc |-> IF t.raised = "none" THEN gc ELSE "uncalled",
     raised |-> t.raised, err |-> t.err, booking |-> t.booking,
     side_effects |-> t.side_effects]

\* transition_booking: fetch the booking of the user's workspace (404 when
\* there is none), then run the state machine from the fetched status.
TransitionBooking(workspace_id, booking_id, target_status, notes, gc) ==
    /\ IF MatchedRows(bookings, booking_id, workspace_id) = {}
       THEN /\ last' = [op |-> "transition_booking", raised |-> "HTTP404",
                        booking_id |-> booking_id, workspace_id |-> workspace_id]
            /\ UNCHANGED <<bookings, gcal>>
       ELSE LET current_status == bookings[booking_id].status
                t == Transition(bookings, gcal, booking_id, workspace_id,
                                current_status, target_status, notes, gc)
            IN /\ bookings' = t.bookings
               /\ gcal' = t.gcal
               /\ last' = TransitionOutcome("endpoint", booking_id, workspace_id,
                                            current_status, target_status, gc, t)
    /\ UNCHANGED <<rules, logs, paused, submissions, now, logStatusIsEnum, inventory, task, requests, scans>>

\* BookingStateMachine.transition called with a (booking id, workspace)
\* pair that matches no row: a missing id or another tenant's booking. The
\* caller states any current status.
TransitionUnmatched(workspace_id, booking_id, current_status, target_status, notes, gc) ==
    /\ MatchedRows(bookings, booking_id, workspace_id) = {}
    /\ LET t == Transition(bookings, gcal, booking_id, workspace_id,
                           current_status, target_status, notes, gc)
       IN /\ bookings' = t.bookings
          /\ gcal' = t.gcal
          /\ last' = TransitionOutcome("service", booking_id, workspace_id,
                                       current_status, target_status, gc, t)
    /\ UNCHANGED <<rules, logs, paused, submissions, now, logStatusIsEnum, inventory, task, requests, scans>>

\* The batch update of list_bookings: every pending or confirmed booking of
\* the workspace whose end is before now is written completed.
AutoComplete(bookingTable, workspace_id, t) ==
    [b \in DOMAIN bookingTable |->
        IF /\ bookingTable[b].workspace_id = workspace_id
           /\ bookingTable[b].status \in {PENDING, CONFIRMED}
           /\ bookingTable[b].ends_at < t
        THEN [bookingTable[b] EXCEPT !.status = COMPLETED]
        ELSE bookingTable[b]]

\* list_bookings
ListBookings(workspace_id) ==
    /\ bookings' = AutoComplete(bookings, workspace_id, now)
    /\ last' = [op |-> "list_bookings", workspace_id |-> workspace_id]
    /\ UNCHANGED <<gcal, rules, logs, paused, submissions, now, logStatusIsEnum, inventory, task, requests, scans>>

\* Time passes.
AdvanceTime ==
    /\ now + TimeStep <= MaxTime
    /\ now' = now + TimeStep
    /\ last' = [op |-> "advance"]
    /\ UNCHANGED <<bookings, gcal, rules, logs, paused, submissions, logStatusIsEnum, inventory, task, requests, scans>>

\* -------------------------------------------------- AutomationScheduler
\* Which row a limit(1) query without an order returns for each contact.
FirstRowChoices ==
    {f \in [ContactIds -> ConversationIds \cup {"none"}] :
        \A c \in ContactIds :
            LET rows == ConversationsOf(contacts[c].workspace_id, c)
            IN IF rows = {} THEN f[c] = "none" ELSE f[c] \in rows}

\* AutomationScheduler._is_automation_paused: the flag of the first
\* conversation row the store returns for the contact.
SchedulerIsAutomationPaused(pausedSet, workspace_id, contact_id, firstRow) ==
    /\ contact_id # ""
    /\ ConversationsOf(workspace_id, contact_id) # {}
    /\ firstRow[contact_id] \in ConversationsOf(workspace_id, contact_id)
    /\ firstRow[contact_id] \in pausedSet

\* A marker check that reads a key the scan never writes.
ReminderSentOtherKey(metadata) == "reminded" \in DOMAIN metadata /\ metadata["reminded"] = TRUE

\* metadata.get("reminder_sent")
ReminderSent(metadata) == "reminder_sent" \in DOMAIN metadata /\ metadata["reminder_sent"] = TRUE

\* A marking that stamps the time without setting the flag.
MarkRemindedAtOnly(metadata, t) ==
    [k \in DOMAIN metadata \cup {"reminder_sent_at"} |->
        IF k = "reminder_sent_at" THEN t ELSE metadata[k]]

\* metadata["reminder_sent"] = True; metadata["reminder_sent_at"] = now
MarkReminded(metadata, t) ==
    [k \in DOMAIN metadata \cup {"reminder_sent", "reminder_sent_at"} |->
        IF k = "reminder_sent" THEN TRUE
        ELSE IF k = "reminder_sent_at" THEN t
        ELSE metadata[k]]

\* The query of _check_booking_reminders: confirmed bookings with
\* now <= starts_at <= now + 24h.
InReminderWindow(row, t) ==
    /\ row.status = CONFIRMED
    /\ row.starts_at >= t
    /\ row.starts_at <= t + ReminderWindowHours

\* The rows of a query, in table order.
RECURSIVE InTableOrder(_)
InTableOrder(ids) ==
    IF ids = {} THEN <<>>
    ELSE LET m == CHOOSE x \in ids : \A y \in ids : x <= y
         IN <<m>> \o InTableOrder(ids \ {m})

ReminderCandidates(bookingTable, t) ==
    InTableOrder({i \in DOMAIN bookingTable : InReminderWindow(bookingTable[i], t)})

\* The payload of a booking_reminder event.
ReminderPayload(booking_id, row) ==
    [contact_name |-> contacts[row.contact_id].full_name,
     contact_email |-> contacts[row.contact_id].email,
     contact_phone |-> contacts[row.contact_id].phone,
     booking_date |-> row.starts_at \div 24,
     booking_time |-> row.starts_at % 24,
     booking_id |-> booking_id]

\* The loop of _check_booking_reminders over the rows of the query
\* (snapshot). acc carries the tables and the booking ids fired for.
RECURSIVE RemindLoop(_, _, _, _, _, _, _, _)
RemindLoop(ids, snapshot, ruleTable, chans, statusIsEnum, firstRow, t, acc) ==
    IF ids = <<>> THEN acc
    ELSE LET id == Head(ids)
             row == snapshot[id]
             next(a) == RemindLoop(Tail(ids), snapshot, ruleTable, chans,
                                   statusIsEnum, firstRow, t, a)
         IN IF ReminderSent(row.metadata) THEN next(acc)
            ELSE IF contacts[row.contact_id].email = "" THEN next(acc)
            ELSE IF SchedulerIsAutomationPaused(acc.paused, row.workspace_id,
                                                row.contact_id, firstRow)
                 THEN next(acc)
            ELSE LET f == FireTrigger(row.workspace_id, "booking_reminder",
                                      ReminderPayload(id, row), chans,
                                      statusIsEnum, ruleTable, acc.logs,
                                      acc.paused, t)
                 IN next([bookings |-> [acc.bookings EXCEPT ![id].metadata =
                                            MarkReminded(row.metadata, t)],
                          logs |-> f.logs,
                          paused |-> f.paused,
                          fired |-> Append(acc.fired, id),
                          formFired |-> acc.formFired])

\* The query of _check_pending_form_reminders: successful log rows executed
\* at least 24h ago.
FormCandidates(logTable, t) ==
    InTableOrder({i \in DOMAIN logTable :
                    /\ logTable[i].status = "success"
                    /\ logTable[i].executed_at <= t - FormReminderAgeHours})

\* Whether _check_pending_form_reminders takes the contact of a log row to
\* have submitted the form.
ContactSubmitted(subs, form_id, payload) ==
    /\ \E s \in subs : s[1] = form_id
    /\ PayloadGet(payload, "contact_id") # ""
    /\ <<form_id, PayloadGet(payload, "contact_id")>> \in subs

\* metadata.get("form_reminder_sent") of a log row. No code path writes the
\* key.
FormReminderSent(log) ==
    /\ "metadata" \in DOMAIN log
    /\ "form_reminder_sent" \in DOMAIN log.metadata
    /\ log.metadata["form_reminder_sent"] = TRUE

\* The payload of a pending-form reminder event.
FormReminderPayload(payload, form_id) ==
    [contact_name |-> PayloadGet(payload, "contact_name"),
     contact_email |-> PayloadGet(payload, "contact_email"),
     form_title |-> "Form",
     form_url |-> form_id,
     _is_reminder |-> TRUE]

\* The loop of _check_pending_form_reminders over the rows of the query.
RECURSIVE FormLoop(_, _, _, _, _, _, _, _, _)
FormLoop(ids, snapshot, ruleTable, subs, chans, statusIsEnum, firstRow, t, acc) ==
    IF ids = <<>> THEN acc
    ELSE LET i == Head(ids)
             log == snapshot[i]
             payload == log.trigger_payload
             result == log.action_result
             next(a) == FormLoop(Tail(ids), snapshot, ruleTable, subs, chans,
                                 statusIsEnum, firstRow, t, a)
         IN IF ruleTable[log.rule_id].action # "distribute_form" THEN next(acc)
            ELSE IF "form_id" \notin DOMAIN result
                    \/ PayloadGet(payload, "contact_email") = "" THEN next(acc)
            ELSE IF FormReminderSent(log) THEN next(acc)
            ELSE IF ContactSubmitted(subs, result.form_id, payload) THEN next(acc)
            ELSE IF SchedulerIsAutomationPaused(acc.paused, log.workspace_id,
                                                PayloadGet(payload, "contact_id"),
                                                firstRow)
                 THEN next(acc)
            ELSE LET f == FireTrigger(log.workspace_id, "form_submitted",
                                      FormReminderPayload(payload, result.form_id),
                                      chans, statusIsEnum, ruleTable, acc.logs,
                                      acc.paused, t)
                 IN next([bookings |-> acc.bookings,
                          logs |-> f.logs,
                          paused |-> f.paused,
                          fired |-> acc.fired,
                          formFired |-> Append(acc.formFired, i)])

\* AutomationScheduler._tick: the booking-reminder scan, then the
\* pending-form scan. The channels answer one way per rule during a tick.
Tick(chans, firstRow) ==
    /\ Len(logs) < MaxLogs
    /\ LET start == [bookings |-> bookings, logs |-> logs, paused |-> paused,
                     fired |-> <<>>, formFired |-> <<>>]
           a == RemindLoop(ReminderCandidates(bookings, now), bookings, rules, chans,
                           logStatusIsEnum, firstRow, now, start)
           b == FormLoop(FormCandidates(a.logs, now), a.logs, rules, submissions,
                         chans, logStatusIsEnum, firstRow, now, a)
       IN /\ bookings' = b.bookings
          /\ logs' = b.logs
          /\ paused' = b.paused
          /\ last' = [op |-> "tick", fired |-> b.fired, formFired |-> b.formFired,
                      at |-> now]
    /\ UNCHANGED <<gcal, rules, submissions, now, logStatusIsEnum, inventory, task, requests, scans>>

\* The workspace a form belongs to.
FormWorkspace(form_id) == CHOOSE w \in Workspaces : \E k \in DOMAIN activeForms[w] : activeForms[w][k] = form_id

\* The payload the public submission endpoint hands to form_submitted.
SubmittedPayload(contact_id) ==
    [contact_name |-> contacts[contact_id].full_name,
     contact_email |-> contacts[contact_id].email,
     contact_phone |-> contacts[contact_id].phone,
     form_title |-> "Form",
     message |-> "Submitted form"]

\* submit_public_dynamic_form: the submission is stored under the contact found by
\* phone or e-mail, then form_submitted is fired. A contact submits a form
\* once.
SubmitForm(form_id, contact_id, chans) ==
    /\ <<form_id, contact_id>> \notin submissions
    /\ submissions' = submissions \cup {<<form_id, contact_id>>}
    /\ LET f == FireTrigger(FormWorkspace(form_id), "form_submitted",
                            SubmittedPayload(contact_id), chans, logStatusIsEnum,
                            rules, logs, paused, now)
       IN /\ logs' = f.logs
          /\ paused' = f.paused
    /\ last' = [op |-> "submit_form", form_id |-> form_id, contact_id |-> contact_id]
    /\ UNCHANGED <<bookings, gcal, rules, now, logStatusIsEnum, inventory, task, requests, scans>>

\* ------------------------------------------------------- specification
Next ==
    \/ \E w \in Workspaces, shape \in RuleShapes : CreateRule(w, shape)
    \/ \E w \in Workspaces, tr \in Triggers, p \in PayloadSamples,
          chans \in ChannelChoices :
            ManualTrigger(w, tr, p, chans)
    \/ \E v \in ConversationIds : StaffReply(v)
    \/ \E w \in Workspaces, c \in ContactIds, t \in Times,
          chans \in ChannelChoices, gc \in GCalOutcomes :
            CreateBooking(w, c, t, chans, gc)
    \/ \E w \in Workspaces, b \in BookingIds, tgt \in BookingStatus,
          n \in NoteInputs, gc \in GCalOutcomes :
            TransitionBooking(w, b, tgt, n, gc)
    \/ \E w \in Workspaces, b \in BookingIds, cur \in BookingStatus,
          tgt \in BookingStatus, n \in NoteInputs, gc \in GCalOutcomes :
            TransitionUnmatched(w, b, cur, tgt, n, gc)
    \/ \E w \in Workspaces : ListBookings(w)
    \/ AdvanceTime
    \/ \E chans \in ChannelChoices, fr \in FirstRowChoices : Tick(chans, fr)
    \/ \E c \in ContactIds, chans \in ChannelChoices : SubmitForm("f1", c, chans)

Spec == Init /\ [][Next]_vars

\* An environment choice that no call of the step reads is fixed, so that
\* the same step is not enumerated once per unread choice.
QuietChans == [r \in RuleIds |-> "ok"]
AnyFirstRow == CHOOSE f \in FirstRowChoices : TRUE

ChannelRuleIds(ruleTable, workspace_id, trigger) ==
    {ruleTable[i].id : i \in {j \in DOMAIN ruleTable :
        /\ ruleTable[j].workspace_id = workspace_id
        /\ ruleTable[j].trigger = trigger
        /\ ruleTable[j].is_active
        /\ ruleTable[j].action \in {"send_email", "send_form", "distribute_form",
                                    "send_whatsapp"}}}

ChansRead(chans, ruleIds) == \A r \in RuleIds \ ruleIds : chans[r] = "ok"

GCalRead(target_status, gc) == target_status \in {CONFIRMED, CANCELLED} \/ gc = "ok"

\* The booking lifecycle alone: no automation rule is configured, so the
\* channels of the trigger engine are never called.
InitBooking == Init /\ logStatusIsEnum = TRUE

NextBooking ==
    \/ \E w \in Workspaces, c \in ContactIds, t \in Times, gc \in GCalOutcomes :
            CreateBooking(w, c, t, QuietChans, gc)
    \/ \E w \in Workspaces, b \in BookingIds, tgt \in BookingStatus,
          n \in NoteInputs, gc \in GCalOutcomes :
            GCalRead(tgt, gc) /\ TransitionBooking(w, b, tgt, n, gc)
    \/ \E w \in Workspaces, b \in BookingIds, cur \in BookingStatus,
          tgt \in BookingStatus :
            TransitionUnmatched(w, b, cur, tgt, NoNotes, "ok")
    \/ \E w \in Workspaces : ListBookings(w)
    \/ AdvanceTime
    \/ Tick(QuietChans, AnyFirstRow)

SpecBooking == InitBooking /\ [][NextBooking]_vars

\* The trigger engine alone: tenants configure rules, staff replies pause
\* threads, triggers are fired by hand. The rules are an active e-mail
\* rule, an inactive one, a notification rule whose template is not a
\* string (its action raises) and a reminder-only rule.
EngineShapes ==
    {sh \in RuleShapes :
        \/ sh.trigger = "booking_confirmed" /\ sh.action \in {"send_email", "notify_owner"}
        \/ sh.trigger = "form_submitted"}

EngineTriggers == {"booking_confirmed", "form_submitted"}

EnginePayloads == {p \in PayloadSamples : "conversation_id" \notin DOMAIN p}

NextEngine ==
    \/ \E w \in Workspaces, shape \in EngineShapes : CreateRule(w, shape)
    \/ \E w \in Workspaces, tr \in EngineTriggers, p \in EnginePayloads,
          chans \in ChannelChoices :
            /\ ChansRead(chans, ChannelRuleIds(rules, w, tr))
            /\ ManualTrigger(w, tr, p, chans)
    \/ \E v \in ConversationIds : StaffReply(v)

SpecEngine == Init /\ [][NextEngine]_vars

\* The scheduler over the booking lifecycle. Tenant w1 has two
\* booking_reminder rules: an e-mail reminder and a notification whose
\* template is not a string (its action raises). Google Calendar is not
\* connected.
ReminderRules ==
    <<[id |-> 1, workspace_id |-> "w1", trigger |-> "booking_reminder",
       action |-> "send_email", is_active |-> TRUE,
       action_config |-> [is_reminder |-> FALSE, template_is_str |-> TRUE]],
      [id |-> 2, workspace_id |-> "w1", trigger |-> "booking_reminder",
       action |-> "notify_owner", is_active |-> TRUE,
       action_config |-> [is_reminder |-> FALSE, template_is_str |-> FALSE]]>>

InitSched ==
    /\ bookings = <<>>
    /\ gcal = {}
    /\ rules = ReminderRules
    /\ logs = <<>>
    /\ paused = {}
    /\ submissions = {}
    /\ now = 0
    /\ logStatusIsEnum \in BOOLEAN
    /\ inventory = InitialStock
    /\ last = [op |-> "init"]
    /\ task = "startup"
    /\ requests = [r \in RequestIds |-> IdleRequest]
    /\ scans = [s \in SchedulerIds |-> IdleScan]

NextSched ==
    \/ \E w \in Workspaces, c \in ContactIds, t \in Times :
            CreateBooking(w, c, t, QuietChans, "not_connected")
    \/ \E w \in Workspaces, b \in BookingIds, tgt \in BookingStatus :
            TransitionBooking(w, b, tgt, NoNotes, "not_connected")
    \/ \E v \in ConversationIds : StaffReply(v)
    \/ AdvanceTime
    \/ \E chans \in ChannelChoices, fr \in FirstRowChoices :
            /\ ChansRead(chans, ChannelRuleIds(rules, "w1", "booking_reminder"))
            /\ Tick(chans, fr)

SpecSched == InitSched /\ [][NextSched]_vars

\* ------------------------------------------------ the scheduler's loop
\* What can go wrong in one tick: nothing, the store client cannot be
\* created (_tick raises before either scan), or the query of one of the
\* two scans raises.
TickFaults == {"none", "client", "reminders", "forms"}

\* _check_booking_reminders does its work unless its query raised or _tick
\* never reached it.
RunsReminderScan(fault) == fault \in {"none", "forms"}

\* A tick in which an exception of the first scan escapes it.
RunsFormScanUnlessRaised(fault) == fault = "none"

\* _check_pending_form_reminders does its work unless its own query raised
\* or _tick never reached it: an exception of the first scan is caught
\* inside that scan.
RunsFormScan(fault) == fault \in {"none", "reminders"}

\* A loop that starts the next tick without sleeping.
TaskAfterTickNoSleep(fault) == "ticking"
\* _loop after a tick: whatever the tick raised (short of a cancellation)
\* is caught and logged, and the loop sleeps.
TaskAfterTick(fault) == "sleeping"

\* The sleep of _loop ends (the first one after start, or one between two
\* ticks).
LoopWake ==
    /\ task \in {"startup", "sleeping"}
    /\ task' = "ticking"
    /\ last' = [op |-> "wake"]
    /\ UNCHANGED <<bookings, gcal, rules, logs, paused, submissions, now,
                   logStatusIsEnum, inventory, requests, scans>>

\* _tick with a fault: the booking-reminder scan, then the pending-form
\* scan, each unless the fault keeps it from its work.
TickOutcome(chans, firstRow, fault) ==
    LET start == [bookings |-> bookings, logs |-> logs, paused |-> paused,
                  fired |-> <<>>, formFired |-> <<>>]
        a == IF RunsReminderScan(fault)
             THEN RemindLoop(ReminderCandidates(bookings, now), bookings, rules,
                             chans, logStatusIsEnum, firstRow, now, start)
             ELSE start
    IN IF RunsFormScan(fault)
       THEN FormLoop(FormCandidates(a.logs, now), a.logs, rules, submissions,
                     chans, logStatusIsEnum, firstRow, now, a)
       ELSE a

\* One iteration of the while loop of _loop: _tick under the try.
LoopTick(chans, firstRow, fault) ==
    /\ task = "ticking"
    /\ \E b \in {TickOutcome(chans, firstRow, fault)} :
          /\ bookings' = b.bookings
          /\ logs' = b.logs
          /\ paused' = b.paused
          /\ last' = [op |-> "tick", fired |-> b.fired, formFired |-> b.formFired,
                      at |-> now, fault |-> fault]
    /\ task' = TaskAfterTick(fault)
    /\ UNCHANGED <<gcal, rules, submissions, now, logStatusIsEnum, inventory, requests, scans>>

\* AutomationScheduler.stop: the task is cancelled.
StopScheduler ==
    /\ task # "cancelled"
    /\ task' = "cancelled"
    /\ last' = [op |-> "stop"]
    /\ UNCHANGED <<bookings, gcal, rules, logs, paused, submissions, now,
                   logStatusIsEnum, inventory, requests, scans>>

\* The loop over the booking lifecycle of tenant w1, whose one rule sends
\* the intake form when a booking is created.
FormRules ==
    <<[id |-> 1, workspace_id |-> "w1", trigger |-> "booking_confirmed",
       action |-> "distribute_form", is_active |-> TRUE,
       action_config |-> [is_reminder |-> FALSE, template_is_str |-> TRUE]]>>

InitLoop ==
    /\ bookings = <<>>
    /\ gcal = {}
    /\ rules = FormRules
    /\ logs = <<>>
    /\ paused = {}
    /\ submissions = {}
    /\ now = 0
    /\ logStatusIsEnum = TRUE
    /\ inventory = InitialStock
    /\ last = [op |-> "init"]
    /\ task = "startup"
    /\ requests = [r \in RequestIds |-> IdleRequest]
    /\ scans = [s \in SchedulerIds |-> IdleScan]

TickStep == \E fault \in TickFaults : LoopTick(QuietChans, AnyFirstRow, fault)

NextLoop ==
    \/ \E c \in ContactIds, t \in Times :
            CreateBooking("w1", c, t, QuietChans, "not_connected")
    \/ \E tgt \in {CONFIRMED, CANCELLED} :
            TransitionBooking("w1", 1, tgt, NoNotes, "not_connected")
    \/ AdvanceTime
    \/ LoopWake
    \/ TickStep
    \/ StopScheduler

\* The event loop runs a task that is ready: a sleep that is over ends,
\* and a tick that has started finishes.
SpecLoop ==
    InitLoop /\ [][NextLoop]_vars /\ WF_vars(LoopWake) /\ WF_vars(TickStep)

\* ----------------------------------------------------- slot computation
\* Time is counted in hours from midnight of day 0; a day has 24 hours and
\* day 0 is a Monday.
HoursPerDay == 24
DefaultOpen == 9
DefaultClose == 17

DayStart(day) == day * HoursPerDay

\* target_utc.weekday(): Monday is 0, Sunday is 6.
Weekday(day) == day % 7

\* The business-hours rows get_available_slots works with: the rows of the
\* table for the weekday, or the default 09:00-17:00 on Monday to Friday
\* when the table has none; rows with is_open = false are dropped.
OpenBlocks(rows, day) ==
    LET bh_rows == IF rows # <<>> THEN rows
                   ELSE IF Weekday(day) >= 5 THEN <<>>
                   ELSE <<[open_time |-> DefaultOpen, close_time |-> DefaultClose,
                           is_open |-> TRUE]>>
    IN SelectSeq(bh_rows, LAMBDA r : r.is_open)

\* The bookings query of get_available_slots: the non-cancelled bookings of
\* the workspace whose starts_at lies in the target day.
ExistingBookings(bookingTable, workspace_id, day) ==
    {b \in DOMAIN bookingTable :
        /\ bookingTable[b].workspace_id = workspace_id
        /\ bookingTable[b].starts_at >= DayStart(day)
        /\ bookingTable[b].starts_at < DayStart(day + 1)
        /\ bookingTable[b].status # CANCELLED}

\* A loop that keeps the slots that have already begun.
RECURSIVE BlockSlotsWithPast(_, _, _, _, _, _)
BlockSlotsWithPast(current, block_end, slot_duration, bookingTable, existing, t) ==
    IF current + slot_duration > block_end THEN <<>>
    ELSE LET slot_end == current + slot_duration
             rest == BlockSlotsWithPast(slot_end, block_end, slot_duration,
                                        bookingTable, existing, t)
         IN IF \E b \in existing :
                  current < bookingTable[b].ends_at /\ slot_end > bookingTable[b].starts_at
            THEN rest
            ELSE <<[starts_at |-> current, ends_at |-> slot_end]>> \o rest

\* The while loop of get_available_slots over one block: slots of
\* slot_duration from the opening to the closing time; a slot that starts
\* before the evaluation instant or overlaps a queried booking is skipped.
RECURSIVE BlockSlots(_, _, _, _, _, _)
BlockSlots(current, block_end, slot_duration, bookingTable, existing, t) ==
    IF current + slot_duration > block_end THEN <<>>
    ELSE LET slot_end == current + slot_duration
             rest == BlockSlots(slot_end, block_end, slot_duration,
                                bookingTable, existing, t)
         IN IF current < t THEN rest
            ELSE IF \E b \in existing :
                       current < bookingTable[b].ends_at
                       /\ slot_end > bookingTable[b].starts_at
                 THEN rest
            ELSE <<[starts_at |-> current, ends_at |-> slot_end]>> \o rest

\* The for loop of get_available_slots over the open blocks.
RECURSIVE AllBlockSlots(_, _, _, _, _, _)
AllBlockSlots(blocks, day, slot_duration, bookingTable, existing, t) ==
    IF blocks = <<>> THEN <<>>
    ELSE BlockSlots(DayStart(day) + Head(blocks).open_time,
                    DayStart(day) + Head(blocks).close_time,
                    slot_duration, bookingTable, existing, t)
         \o AllBlockSlots(Tail(blocks), day, slot_duration, bookingTable, existing, t)

\* The date parameter of a call (given or not), the business-hours tables
\* and the slot durations of a workspace.
SlotDays == {[given |-> FALSE, day |-> 0], [given |-> TRUE, day |-> 0],
             [given |-> TRUE, day |-> 1], [given |-> TRUE, day |-> 5]}
SlotDurations == {1, 2}
BusinessHours ==
    {<<>>,
     <<[open_time |-> 0, close_time |-> 4, is_open |-> TRUE]>>,
     <<[open_time |-> 1, close_time |-> 3, is_open |-> TRUE],
       [open_time |-> 9, close_time |-> 11, is_open |-> TRUE]>>,
     <<[open_time |-> 0, close_time |-> 4, is_open |-> FALSE]>>}

\* get_available_slots
GetAvailableSlots(workspace_id, date, rows, slot_duration) ==
    /\ LET day == IF date.given THEN date.day ELSE now \div HoursPerDay
           existing == ExistingBookings(bookings, workspace_id, day)
       IN last' = [op |-> "slots", workspace_id |-> workspace_id, day |-> day,
                   slot_duration |-> slot_duration, at |-> now, rows |-> rows,
                   slots |-> AllBlockSlots(OpenBlocks(rows, day), day, slot_duration,
                                           bookings, existing, now)]
    /\ UNCHANGED <<bookings, gcal, rules, logs, paused, submissions, now,
                   logStatusIsEnum, inventory, task, requests, scans>>

\* The reservations and instants slot computation is looked at with: one
\* reservation of either tenant around midnight of day 1, in any status a
\* reservation can have.
SlotStarts == {22, 23, 24, 26}
SlotLengths == {1, 3}
SlotNows == {0, 24, 25}

SlotBookingTables ==
    {<<>>} \cup
    {<<[workspace_id |-> w,
        contact_id |-> IF w = "w1" THEN "c1" ELSE "c3",
        status |-> st, starts_at |-> sa, ends_at |-> sa + len,
        notes |-> NoNotes, metadata |-> <<>>, gcal_event_id |-> 0]>> :
        w \in Workspaces, st \in {PENDING, CONFIRMED, CANCELLED},
        sa \in SlotStarts, len \in SlotLengths}

InitSlots ==
    /\ bookings \in SlotBookingTables
    /\ gcal = {}
    /\ rules = <<>>
    /\ logs = <<>>
    /\ paused = {}
    /\ submissions = {}
    /\ now \in SlotNows
    /\ logStatusIsEnum = TRUE
    /\ inventory = InitialStock
    /\ last = [op |-> "init"]
    /\ task = "startup"
    /\ requests = [r \in RequestIds |-> IdleRequest]
    /\ scans = [s \in SchedulerIds |-> IdleScan]

NextSlots ==
    \/ \E w \in Workspaces, d \in SlotDays, rows \in BusinessHours,
          dur \in SlotDurations :
            GetAvailableSlots(w, d, rows, dur)
    \/ AdvanceTime

SpecSlots == InitSlots /\ [][NextSlots]_vars

\* ------------------------------------------- template rendering inputs
\* Templates of at most two pieces and payloads of at most two items.
TemplateKeys == {"business_name", "contact_name", "_workspace_id", "item_name"}
PayloadKeys == {"business_name", "contact_name", "_workspace_id"}
TemplatePieces == {Plain(" Confirmed")} \cup {Placeholder(k) : k \in TemplateKeys}
Templates ==
    {<<>>} \cup {<<p>> : p \in TemplatePieces}
           \cup {<<p, q>> : p \in TemplatePieces, q \in TemplatePieces}
PayloadValues ==
    {<<Plain("Acme")>>, <<Placeholder("business_name")>>, <<Placeholder("contact_name")>>}
PayloadItems == [key : PayloadKeys, value : PayloadValues]
RenderPayloads ==
    {<<>>} \cup {<<i>> : i \in PayloadItems}
           \cup {items \in PayloadItems \X PayloadItems : items[1].key # items[2].key}

\* A rule action renders a template against the event payload.
Render(template, items) ==
    /\ last' = [op |-> "render", template |-> template, payload |-> items,
                result |-> RenderTemplate(template, items)]
    /\ UNCHANGED <<bookings, gcal, rules, logs, paused, submissions, now,
                   logStatusIsEnum, inventory, task, requests, scans>>

NextRender == \E template \in Templates, items \in RenderPayloads : Render(template, items)

SpecRender == Init /\ [][NextRender]_vars

\* ------------------------------------------------------- notifications
\* The stock alert of the default rules, as notify_owner and as
\* send_notification, an inactive copy, and a notification on another
\* trigger.
StockMessage ==
    <<Plain("Item '"), Placeholder("item_name"), Plain("' is running low ("),
      Placeholder("quantity"), Plain(" "), Placeholder("unit"), Plain(" remaining).")>>

NotifyShapes ==
    {[trigger |-> "inventory_low", action |-> "notify_owner", is_active |-> TRUE,
      action_config |-> [is_reminder |-> FALSE, template_is_str |-> TRUE,
                         message |-> StockMessage]],
     [trigger |-> "inventory_low", action |-> "send_notification", is_active |-> TRUE,
      action_config |-> [is_reminder |-> FALSE, template_is_str |-> TRUE,
                         message |-> <<Placeholder("item_name")>>]],
     [trigger |-> "inventory_low", action |-> "notify_owner", is_active |-> FALSE,
      action_config |-> [is_reminder |-> FALSE, template_is_str |-> TRUE,
                         message |-> StockMessage]],
     [trigger |-> "message_received", action |-> "notify_owner", is_active |-> TRUE,
      action_config |-> [is_reminder |-> FALSE, template_is_str |-> TRUE,
                         message |-> <<Plain("Staff replied to "),
                                       Placeholder("contact_name")>>]]}

NotifyTriggers == {"inventory_low", "message_received"}

NotifyPayloads ==
    {[item_name |-> "Gloves", quantity |-> 2],
     [item_name |-> "Masks"],
     [contact_name |-> "Ann"]}

NextNotify ==
    \/ \E w \in Workspaces, shape \in NotifyShapes : CreateRule(w, shape)
    \/ \E w \in Workspaces, tr \in NotifyTriggers, p \in NotifyPayloads :
            ManualTrigger(w, tr, p, QuietChans)

SpecNotify == Init /\ [][NextNotify]_vars

\* ------------------------------------------------- BaseExternalService
\* Settings.EXTERNAL_API_MAX_RETRIES
EXTERNAL_API_MAX_RETRIES == 3

\* The subclasses whose calls go through the executor here.
ExecutorServices == {"GoogleCalendar", "WhatsAppBridge"}

\* What one invocation of the wrapped call ends in: its result, or the
\* exception it raises. ValueError stands for every exception that is not
\* an OSError (ConnectionError and TimeoutError are OSErrors).
CallOutcomes == {"ok", "ConnectionError", "TimeoutError", "OSError", "ValueError"}

\* A retry condition that matches every exception.
RetryIfException(outcome) == outcome # "ok"

\* retry_if_exception_type((ConnectionError, TimeoutError, OSError))
RetryIfExceptionType(outcome) == outcome \in {"ConnectionError", "TimeoutError", "OSError"}

\* stop_after_attempt(EXTERNAL_API_MAX_RETRIES)
StopAfterAttempt(attempt_number) == attempt_number >= EXTERNAL_API_MAX_RETRIES

\* An execution of _execute_with_retry is in progress or has ended.
InRetry == last.op = "retry"

\* _execute_with_retry is entered: the first attempt is about to be made.
ExecuteWithRetry(service_name) ==
    /\ ~(InRetry /\ last.pc \in {"calling", "sleeping"})
    /\ last' = [op |-> "retry", service_name |-> service_name, pc |-> "calling",
                attempt_number |-> 1, outcomes |-> <<>>, raises |-> "none"]
    /\ UNCHANGED <<bookings, gcal, rules, logs, paused, submissions, now,
                   logStatusIsEnum, inventory, task, requests, scans>>

\* What the decorator raises when the stop condition is met after a matched
\* exception: with reraise=True the exception of the last attempt, as it is
\* (a RetryError only without reraise).
ExhaustedRaises(outcome) == outcome

\* The try of _execute_with_retry: a RetryError out of _wrapped becomes an
\* ExternalServiceError; any other exception is not caught.
ExecutorRaises(exc) == IF exc = "RetryError" THEN "ExternalServiceError" ELSE exc

\* One attempt of _wrapped and what the decorator does with its outcome:
\* an outcome the retry condition does not match ends the execution (the
\* result is returned, the exception propagates); a matched exception at
\* the stop condition is re-raised as it is (reraise=True); otherwise the
\* executor logs the retry and sleeps (between 1 and 30 seconds).
WrappedCall(outcome) ==
    /\ InRetry
    /\ last.pc = "calling"
    /\ last' = [last EXCEPT
                  !.outcomes = Append(@, outcome),
                  !.pc = IF ~RetryIfExceptionType(outcome)
                         THEN IF outcome = "ok" THEN "returned" ELSE "raised"
                         ELSE IF StopAfterAttempt(last.attempt_number)
                              THEN "raised"
                              ELSE "sleeping",
                  !.raises = IF ~RetryIfExceptionType(outcome)
                             THEN IF outcome = "ok" THEN "none"
                                  ELSE ExecutorRaises(outcome)
                             ELSE IF StopAfterAttempt(last.attempt_number)
                                  THEN ExecutorRaises(ExhaustedRaises(outcome))
                                  ELSE "none"]
    /\ UNCHANGED <<bookings, gcal, rules, logs, paused, submissions, now,
                   logStatusIsEnum, inventory, task, requests, scans>>

\* The backoff sleep is over: the next attempt.
RetryWake ==
    /\ InRetry
    /\ last.pc = "sleeping"
    /\ last' = [last EXCEPT !.pc = "calling", !.attempt_number = @ + 1]
    /\ UNCHANGED <<bookings, gcal, rules, logs, paused, submissions, now,
                   logStatusIsEnum, inventory, task, requests, scans>>

WrappedCallStep == \E outcome \in CallOutcomes : WrappedCall(outcome)

NextRetry ==
    \/ \E service_name \in ExecutorServices : ExecuteWithRetry(service_name)
    \/ WrappedCallStep
    \/ RetryWake

\* The wrapped call returns or raises, and a sleep ends.
SpecRetry ==
    Init /\ [][NextRetry]_vars /\ WF_vars(WrappedCallStep) /\ WF_vars(RetryWake)

\* ------------------------------------ transition requests of two workers
\* The store is a remote service shared by every process that serves the
\* API. One process runs transition_booking from the fetch to the update
\* without suspending; a request served by another worker process reaches
\* the store in two round trips, the fetch and the update, and the round
\* trips of two workers arrive in any order.

\* transition_booking, first round trip: the fetch of the booking in the
\* user's workspace (404 when there is none). The worker keeps the status
\* it has read.
FetchBooking(r, workspace_id, booking_id, target_status, notes) ==
    /\ requests[r].pc = "idle"
    /\ IF MatchedRows(bookings, booking_id, workspace_id) = {}
       THEN /\ last' = [op |-> "transition_booking", raised |-> "HTTP404",
                        booking_id |-> booking_id, workspace_id |-> workspace_id]
            /\ UNCHANGED requests
       ELSE /\ requests' = [requests EXCEPT ![r] =
                               [pc |-> "fetched", workspace_id |-> workspace_id,
                                booking_id |-> booking_id,
                                current_status |-> bookings[booking_id].status,
                                target_status |-> target_status, notes |-> notes]]
            /\ last' = [op |-> "fetch", request |-> r]
    /\ UNCHANGED <<bookings, gcal, rules, logs, paused, submissions, now,
                   logStatusIsEnum, inventory, task, scans>>

\* transition_booking, the rest: BookingStateMachine.transition with the
\* status the worker has read, against the store as it is now.
RunTransition(r, gc) ==
    /\ requests[r].pc = "fetched"
    /\ LET req == requests[r]
           t == Transition(bookings, gcal, req.booking_id, req.workspace_id,
                           req.current_status, req.target_status, req.notes, gc)
       IN /\ bookings' = t.bookings
          /\ gcal' = t.gcal
          /\ last' = TransitionOutcome("worker", req.booking_id, req.workspace_id,
                                       req.current_status, req.target_status, gc, t)
    /\ requests' = [requests EXCEPT ![r] = IdleRequest]
    /\ UNCHANGED <<rules, logs, paused, submissions, now, logStatusIsEnum, inventory, task, scans>>

RaceGCal == {"ok", "not_connected"}

NextRace ==
    \/ \E c \in ContactIds : CreateBooking("w1", c, 0, QuietChans, "not_connected")
    \/ \E tgt \in BookingStatus, gc \in RaceGCal :
            TransitionBooking("w1", 1, tgt, NoNotes, gc)
    \/ \E r \in RequestIds, w \in Workspaces, tgt \in BookingStatus :
            FetchBooking(r, w, 1, tgt, NoNotes)
    \/ \E r \in RequestIds, gc \in RaceGCal : RunTransition(r, gc)

SpecRace == InitBooking /\ [][NextRace]_vars

\* ------------------------------------------- reminders over many ticks
\* One scheduler loop over the bookings of tenant w1, whose rules are the
\* reminder rules: ticks go on after a reminder has been sent and logged.
InitRemind == InitSched /\ logStatusIsEnum = TRUE

RemindTick ==
    \E chans \in ChannelChoices, fault \in TickFaults :
        /\ ChansRead(chans, ChannelRuleIds(rules, "w1", "booking_reminder"))
        /\ LoopTick(chans, AnyFirstRow, fault)

NextRemind ==
    \/ \E c \in ContactIds, t \in Times :
            CreateBooking("w1", c, t, QuietChans, "not_connected")
    \/ \E tgt \in {CONFIRMED, CANCELLED} :
            TransitionBooking("w1", 1, tgt, NoNotes, "not_connected")
    \/ AdvanceTime
    \/ LoopWake
    \/ RemindTick

SpecRemind == InitRemind /\ [][NextRemind]_vars

\* ------------------------------------- reminder scans of several schedulers
\* Every server process runs its own scheduler against the one store. A
\* booking-reminder scan is two steps at the store: its query, and the
\* loop over the rows the query returned (fire, then the marker written
\* into the metadata that was read).

\* _check_booking_reminders up to the query: the rows and the instant the
\* scan took as now. A query that returns no row ends the scan.
ScanQuery(s) ==
    /\ scans[s].pc = "idle"
    /\ LET ids == ReminderCandidates(bookings, now)
       IN scans' = [scans EXCEPT ![s] =
                       IF ids = <<>> THEN IdleScan
                       ELSE [pc |-> "read", ids |-> ids, snapshot |-> bookings,
                             at |-> now]]
    /\ last' = [op |-> "scan_query", scheduler |-> s]
    /\ UNCHANGED <<bookings, gcal, rules, logs, paused, submissions, now,
                   logStatusIsEnum, inventory, task, requests>>

\* _check_booking_reminders, the loop over the rows read.
ScanFire(s, chans, firstRow) ==
    /\ scans[s].pc = "read"
    /\ LET start == [bookings |-> bookings, logs |-> logs, paused |-> paused,
                     fired |-> <<>>, formFired |-> <<>>]
           a == RemindLoop(scans[s].ids, scans[s].snapshot, rules, chans,
                           logStatusIsEnum, firstRow, scans[s].at, start)
       IN /\ bookings' = a.bookings
          /\ logs' = a.logs
          /\ paused' = a.paused
          /\ last' = [op |-> "scan", scheduler |-> s, fired |-> a.fired,
                      at |-> scans[s].at]
    /\ scans' = [scans EXCEPT ![s] = IdleScan]
    /\ UNCHANGED <<gcal, rules, submissions, now, logStatusIsEnum, inventory, task, requests>>

NextScans ==
    \/ \E c \in ContactIds, t \in Times :
            CreateBooking("w1", c, t, QuietChans, "not_connected")
    \/ \E tgt \in {CONFIRMED, CANCELLED} :
            TransitionBooking("w1", 1, tgt, NoNotes, "not_connected")
    \/ AdvanceTime
    \/ \E s \in SchedulerIds : ScanQuery(s)
    \/ \E s \in SchedulerIds : ScanFire(s, QuietChans, AnyFirstRow)

SpecScans == InitRemind /\ [][NextScans]_vars

\* ------------------------------------------------ pending-form reminders
\* Tenant w1 sends its intake form when a booking is created (by staff or
\* by the public page) and configures one rule on form_submitted: the
\* seeded pending-form reminder, or a rule of its own that is not marked as
\* a reminder.
FormFlavourShapes ==
    {[trigger |-> "form_submitted", action |-> "send_email", is_active |-> TRUE,
      action_config |-> [is_reminder |-> TRUE, template_is_str |-> TRUE]],
     [trigger |-> "form_submitted", action |-> "send_email", is_active |-> TRUE,
      action_config |-> [is_reminder |-> FALSE, template_is_str |-> TRUE]]}

\* The persons who book and submit: the contacts of w1.
FormContacts == {c \in ContactIds : contacts[c].workspace_id = "w1"}

FormTick ==
    /\ Len(logs) <= MaxTickLogs
    /\ LoopTick(QuietChans, AnyFirstRow, "none")

NextForms ==
    \/ \E shape \in FormFlavourShapes : CreateRule("w1", shape)
    \/ \E c \in FormContacts : CreateBooking("w1", c, 0, QuietChans, "not_connected")
    \/ \E c \in FormContacts :
            CreatePublicBooking("w1", c, 0, QuietChans, "not_connected")
    \/ \E c \in FormContacts : SubmitForm("f1", c, QuietChans)
    \/ AdvanceTime
    \/ LoopWake
    \/ FormTick

SpecForms == InitLoop /\ [][NextForms]_vars

\* ------------------------------------------------- reminder-only rules
\* Rules marked reminder-only on two trigger names, active and not, next
\* to a rule that is not marked; fires whose payload carries the reminder
\* flag, carries it as false, or does not carry it.
FlavourShapes ==
    {[trigger |-> "form_submitted", action |-> "send_email", is_active |-> TRUE,
      action_config |-> [is_reminder |-> TRUE, template_is_str |-> TRUE]],
     [trigger |-> "form_submitted", action |-> "send_email", is_active |-> FALSE,
      action_config |-> [is_reminder |-> TRUE, template_is_str |-> TRUE]],
     [trigger |-> "booking_confirmed", action |-> "send_email", is_active |-> TRUE,
      action_config |-> [is_reminder |-> TRUE, template_is_str |-> TRUE]],
     [trigger |-> "form_submitted", action |-> "send_email", is_active |-> TRUE,
      action_config |-> [is_reminder |-> FALSE, template_is_str |-> TRUE]],
     [trigger |-> "booking_confirmed", action |-> "send_email", is_active |-> TRUE,
      action_config |-> [is_reminder |-> FALSE, template_is_str |-> TRUE]]}

FlavourTriggers == {"form_submitted", "booking_confirmed"}

FlavourPayloads ==
    {[contact_email |-> "a@x"],
     [contact_email |-> "a@x", _is_reminder |-> TRUE],
     [contact_email |-> "a@x", _is_reminder |-> FALSE]}

NextFlavour ==
    \/ \E shape \in FlavourShapes : CreateRule("w1", shape)
    \/ \E tr \in FlavourTriggers, p \in FlavourPayloads :
            ManualTrigger("w1", tr, p, QuietChans)

SpecFlavour == InitBooking /\ [][NextFlavour]_vars

\* ============================================================ properties
\* The booking lifecycle as a set of (from, to) pairs, written out
\* independently of VALID_TRANSITIONS.
LifecyclePairs ==
    {<<PENDING, CONFIRMED>>, <<PENDING, CANCELLED>>, <<CONFIRMED, COMPLETED>>,
     <<CONFIRMED, CANCELLED>>, <<CONFIRMED, NO_SHOW>>}

AllowedFrom(status) == {t \in BookingStatus : <<status, t>> \in LifecyclePairs}

TerminalStatuses == {COMPLETED, CANCELLED, NO_SHOW}

\* No row has this id in this workspace.
Unaddressed(bookingTable, booking_id, workspace_id) ==
    \/ booking_id \notin DOMAIN bookingTable
    \/ bookingTable[booking_id].workspace_id # workspace_id

\* The active rules of a workspace for a trigger, read off the rule table.
ActiveRuleIds(workspace_id, trigger) ==
    {i \in DOMAIN rules :
        /\ rules[i].workspace_id = workspace_id
        /\ rules[i].trigger = trigger
        /\ rules[i].is_active}

Occurrences(seq, x) == Cardinality({k \in DOMAIN seq : seq[k] = x})

\* ---------------------------------------------------------------- C1
\* C1: every change of a booking's persisted status, by any booking
\* operation (create, transition, listing, scheduler tick), is a (from, to)
\* pair of the transition table.
C1_StatusChangesFollowTable ==
    [][\A b \in DOMAIN bookings :
          bookings'[b].status # bookings[b].status
              => <<bookings[b].status, bookings'[b].status>> \in LifecyclePairs]_vars

\* ---------------------------------------------------------------- C2
\* C2: a transition whose (current, target) pair is not in the table raises
\* InvalidTransitionError carrying the pair and the allowed set, writes
\* nothing and dispatches no side effect.
C2_InvalidPairRejected ==
    [][(last'.op = "transition" /\ <<last'.from, last'.to>> \notin LifecyclePairs)
          => /\ last'.raised = "InvalidTransitionError"
             /\ last'.err = [current |-> last'.from, target |-> last'.to,
                             allowed |-> AllowedFrom(last'.from)]
             /\ bookings' = bookings
             /\ gcal' = gcal
             /\ last'.side_effects = <<>>]_vars

\* A pending booking was asked to complete and the request was rejected.
C2_Witness ==
    /\ last.op = "transition"
    /\ last.via = "endpoint"
    /\ last.from = PENDING
    /\ last.to = COMPLETED
    /\ last.raised = "InvalidTransitionError"
    /\ bookings[last.booking_id].status = PENDING

\* ---------------------------------------------------------------- C3
\* C3: from completed, cancelled or no_show every target is rejected, the
\* same status included, and a booking in a terminal status never changes
\* status again.
C3_TerminalIsFinal ==
    [][/\ (last'.op = "transition" /\ last'.from \in TerminalStatuses)
              => last'.raised = "InvalidTransitionError"
       /\ \A b \in DOMAIN bookings :
              bookings[b].status \in TerminalStatuses
                  => bookings'[b].status = bookings[b].status]_vars

\* A cancelled booking was asked to become cancelled again and stayed as
\* it was.
C3_Witness ==
    /\ last.op = "transition"
    /\ last.via = "endpoint"
    /\ last.from = CANCELLED
    /\ last.to = CANCELLED
    /\ last.raised = "InvalidTransitionError"
    /\ bookings[last.booking_id].status = CANCELLED

\* ---------------------------------------------------------------- C4
\* C4: a legal transition addressed to a (booking id, workspace) pair that
\* matches no row fails with ExternalServiceError, dispatches no side
\* effect and leaves every booking unchanged.
C4_UnmatchedRowFails ==
    [][(/\ last'.op = "transition"
        /\ <<last'.from, last'.to>> \in LifecyclePairs
        /\ Unaddressed(bookings, last'.booking_id, last'.workspace_id))
          => /\ last'.raised = "ExternalServiceError"
             /\ last'.side_effects = <<>>
             /\ bookings' = bookings
             /\ gcal' = gcal]_vars

\* Another tenant asked to cancel a pending booking it does not own; the
\* booking is still pending.
C4_Witness ==
    /\ last.op = "transition"
    /\ last.from = PENDING
    /\ last.to = CANCELLED
    /\ last.raised = "ExternalServiceError"
    /\ last.booking_id \in DOMAIN bookings
    /\ bookings[last.booking_id].workspace_id # last.workspace_id
    /\ bookings[last.booking_id].status = PENDING

\* ---------------------------------------------------------------- C5
\* C5: when the calendar call of a persisted transition errors, the
\* persisted status stays the target, the updated booking is returned and
\* the failure is recorded in the side-effect map.
C5_CalendarFailureRecorded ==
    (/\ last.op = "transition"
     /\ last.raised = "none"
     /\ last.gc \in {"api_error", "service_error"}
     /\ \/ last.to = CONFIRMED
        \/ last.to = CANCELLED /\ last.booking.gcal_event_id # 0)
        => /\ bookings[last.booking_id].status = last.to
           /\ last.booking.status = last.to
           /\ IF last.to = CONFIRMED
              THEN last.side_effects.gcal_sync.status = "failed"
              ELSE last.side_effects.gcal_delete.status = "failed"

C7_NoActiveRuleNoLog ==
    [][(last'.op = "fire" /\ ActiveRuleIds(last'.workspace_id, last'.trigger) = {})
          => /\ last'.results = <<>>
             /\ logs' = logs]_vars

\* A fire went through the gate and found only an inactive rule of the
\* workspace and an active rule of another workspace on the trigger.
C7_Witness ==
    /\ last.op = "fire"
    /\ ~last.gated
    /\ ActiveRuleIds(last.workspace_id, last.trigger) = {}
    /\ \E i \in DOMAIN rules :
          /\ rules[i].workspace_id = last.workspace_id
          /\ rules[i].trigger = last.trigger
          /\ ~rules[i].is_active
    /\ \E i \in DOMAIN rules :
          /\ rules[i].workspace_id # last.workspace_id
          /\ rules[i].trigger = last.trigger
          /\ rules[i].is_active
    /\ last.results = <<>>
    /\ logs = <<>>

\* ---------------------------------------------------------------- C8
\* C8: in one fire every matching rule the reminder filter lets through is
\* executed exactly once and gets exactly one log row whose status is
\* success or failure.
C8_OneLogRowPerRule ==
    (last.op = "fire" /\ ~last.gated)
        => \A i \in ActiveRuleIds(last.workspace_id, last.trigger) :
              ~(rules[i].action_config.is_reminder /\ ~IsReminderPayload(last.payload))
                  => /\ Occurrences(last.executed, i) = 1
                     /\ Cardinality({k \in (last.logsBefore + 1)..Len(logs) :
                                        logs[k].rule_id = i}) = 1
                     /\ \A k \in (last.logsBefore + 1)..Len(logs) :
                            logs[k].rule_id = i
                                => logs[k].status \in {"success", "failure"}

\* ---------------------------------------------------------------- C9
\* C9: fire_trigger does not raise for a failed action, and the list it
\* returns holds one entry for every rule it executed.
C9_ResultPerExecutedRule ==
    last.op = "fire"
        => /\ last.raised = "none"
           /\ \A i \in DOMAIN last.executed :
                 Cardinality({k \in DOMAIN last.results :
                                 last.results[k].rule_id = last.executed[i]}) = 1

FormRemindersDue ==
    {i \in DOMAIN logs :
        /\ logs[i].status = "success"
        /\ logs[i].executed_at + FormReminderAgeHours <= now
        /\ rules[logs[i].rule_id].action = "distribute_form"
        /\ "form_id" \in DOMAIN logs[i].action_result
        /\ PayloadGet(logs[i].trigger_payload, "contact_email") # ""
        /\ \A s \in submissions : s[1] # logs[i].action_result.form_id
        /\ ConversationsOf(logs[i].workspace_id,
                           PayloadGet(logs[i].trigger_payload, "contact_id"))
               \cap paused = {}}

\* C11: an exception in a tick does not end the loop, and an exception in
\* the booking-reminder scan does not keep the pending-form scan of the
\* same tick from running; ticks keep happening until the scheduler is
\* stopped.
C11_LoopSurvivesTick ==
    /\ [][(last'.op = "tick" /\ last'.fault = "reminders")
              => /\ \A i \in FormRemindersDue : Occurrences(last'.formFired, i) = 1
                 /\ task' = "sleeping"]_vars
    /\ [][(last'.op = "tick" /\ last'.fault # "none") => task' = "sleeping"]_vars
    /\ (task \in {"startup", "sleeping"}) ~> (task \in {"ticking", "cancelled"})
    /\ (task = "ticking") ~> (task \in {"sleeping", "cancelled"})

\* A tick whose reminder query raised still sent a pending-form reminder,
\* and the loop went back to sleep.
C11_Witness ==
    /\ last.op = "tick"
    /\ last.fault = "reminders"
    /\ last.formFired = <<1>>
    /\ last.fired = <<>>
    /\ task = "sleeping"

\* ---------------------------------------------------------------- C12
\* C12: no slot returned by slot computation overlaps a non-cancelled
\* reservation of the tenant, whatever the day the reservation starts on.
C12_SlotsAvoidReservations ==
    last.op = "slots"
        => \A k \in DOMAIN last.slots : \A b \in DOMAIN bookings :
              (/\ bookings[b].workspace_id = last.workspace_id
               /\ bookings[b].status # CANCELLED)
                  => ~(/\ last.slots[k].starts_at < bookings[b].ends_at
                       /\ last.slots[k].ends_at > bookings[b].starts_at)

\* ---------------------------------------------------------------- C13
\* C13: no slot returned by slot computation starts before the instant of
\* the computation.
C13_NoPastSlot ==
    last.op = "slots"
        => \A k \in DOMAIN last.slots : last.slots[k].starts_at >= last.at

\* A computation at 01:00 of day 1 for a block opening at midnight returned
\* slots, none of them the 00:00 slot.
C13_Witness ==
    /\ last.op = "slots"
    /\ last.at = 25
    /\ last.day = 1
    /\ last.slot_duration = 2
    /\ last.slots = <<[starts_at |-> 26, ends_at |-> 28]>>

\* ---------------------------------------------------------------- C14
\* The effects transition attempts for a target status.
EffectsAttempted(to_status) ==
    CASE to_status = CONFIRMED -> {"gcal_sync", "confirmation_email"}
      [] to_status = COMPLETED -> {"form_distribution"}
      [] to_status = CANCELLED -> {"gcal_delete", "cancellation_notification"}
      [] to_status = NO_SHOW -> {"no_show_notification"}
      [] OTHER -> {}

\* C14: the outcome map of a transition has one entry per effect attempted
\* for the target status, each with a status among created, deleted,
\* skipped and failed.
C14_OutcomeMapTagged ==
    (last.op = "transition" /\ last.raised = "none")
        => /\ DOMAIN last.side_effects = EffectsAttempted(last.to)
           /\ \A k \in DOMAIN last.side_effects :
                 last.side_effects[k].status \in {"created", "deleted", "skipped", "failed"}

\* ---------------------------------------------------------------- C15
KnownActions ==
    {"send_email", "send_notification", "notify_owner", "send_form",
     "distribute_form", "send_whatsapp", "pause_automation"}

\* The rule cannot act on this payload: its action name is unknown, or the
\* address or the form its action needs is missing.
ConfigurationGap(rule, payload, workspace_id) ==
    \/ rule.action \notin KnownActions
    \/ rule.action = "send_email" /\ PayloadGet(payload, "contact_email") = ""
    \/ rule.action = "send_whatsapp" /\ PayloadGet(payload, "contact_phone") = ""
    \/ /\ rule.action \in {"send_form", "distribute_form"}
       /\ \/ PayloadGet(payload, "contact_email") = ""
          \/ activeForms[workspace_id] = <<>>

\* C15: a rule with an unknown action name, or whose action lacks the
\* contact address or the active form it needs, raises nothing, sends
\* nothing and is logged with outcome skipped and a reason.
C15_GapLoggedSkipped ==
    last.op = "fire"
        => \A i \in DOMAIN rules :
              (/\ Occurrences(last.executed, i) > 0
               /\ rules[i].action_config.template_is_str
               /\ ConfigurationGap(rules[i], last.payload, last.workspace_id))
                  => /\ i \notin last.raisedRules
                     /\ \E k \in (last.logsBefore + 1)..Len(logs) : logs[k].rule_id = i
                     /\ \A k \in (last.logsBefore + 1)..Len(logs) :
                           logs[k].rule_id = i
                               => /\ logs[k].status = "skipped"
                                  /\ "reason" \in DOMAIN logs[k].action_result

\* ---------------------------------------------------------------- C16
\* C16: no automation log row stores an internal payload key (the tenant
\* marker, the reminder marker) in its trigger payload, although the action
\* saw those keys.
C16_LogsHoldNoInternalKey ==
    \A k \in DOMAIN logs :
        \A key \in DOMAIN logs[k].trigger_payload :
            key \notin {"_workspace_id", "_is_reminder"}

\* A reminder-only e-mail rule ran on a reminder payload (it saw the
\* reminder marker) and sent through the tenant's mailbox (it saw the tenant
\* marker); the row logged for it has the public keys only.
C16_Witness ==
    /\ last.op = "fire"
    /\ "_is_reminder" \in DOMAIN last.payload
    /\ Len(logs) = last.logsBefore + 1
    /\ rules[logs[Len(logs)].rule_id].action_config.is_reminder
    /\ logs[Len(logs)].action_result.status = "sent"
    /\ DOMAIN logs[Len(logs)].trigger_payload = {"contact_email"}

\* ---------------------------------------------------------------- C17
\* The value the payload gives a key, or the placeholder itself when the
\* key is absent or internal.
ValueOrVerbatim(piece, items) ==
    IF piece.ph /\ piece.text \notin {"_workspace_id", "_is_reminder"}
          /\ \E n \in DOMAIN items : items[n].key = piece.text
    THEN items[CHOOSE n \in DOMAIN items : items[n].key = piece.text].value
    ELSE <<piece>>

RECURSIVE Substituted(_, _)
Substituted(template, items) ==
    IF template = <<>> THEN <<>>
    ELSE ValueOrVerbatim(Head(template), items) \o Substituted(Tail(template), items)

\* C17: rendering replaces every placeholder of the template whose key is
\* a public key of the payload by the text of its value and leaves every
\* other placeholder verbatim.
C17_RenderSubstitutes ==
    last.op = "render" => last.result = Substituted(last.template, last.payload)

\* ---------------------------------------------------------------- C18
\* C18: a fire that matches exactly one active rule, a notify_owner or
\* send_notification rule, appends exactly one log row, with outcome
\* success, whose result carries the rule's message rendered against the
\* payload.
C18_NotificationLogged ==
    [][(/\ last'.op = "fire"
        /\ \E i \in DOMAIN rules :
              /\ ActiveRuleIds(last'.workspace_id, last'.trigger) = {i}
              /\ rules[i].action \in {"notify_owner", "send_notification"})
          => LET i == CHOOSE i \in ActiveRuleIds(last'.workspace_id, last'.trigger) : TRUE
                 row == logs'[Len(logs')]
             IN /\ Len(logs') = Len(logs) + 1
                /\ SubSeq(logs', 1, Len(logs)) = logs
                /\ row.rule_id = i
                /\ row.status = "success"
                /\ row.action_result.message =
                       Substituted(rules[i].action_config.message,
                                   PayloadItemsOf(last'.payload))]_vars

\* The stock alert fired for two boxes of gloves: one success row whose
\* message names the item and the quantity and keeps the placeholder the
\* payload has no value for.
C18_Witness ==
    /\ last.op = "fire"
    /\ last.payload = [item_name |-> "Gloves", quantity |-> 2]
    /\ Len(logs) = last.logsBefore + 1
    /\ logs[Len(logs)].status = "success"
    /\ logs[Len(logs)].action_result.message =
           <<Plain("Item '"), Plain("Gloves"), Plain("' is running low ("),
             Plain("2"), Plain(" "), Placeholder("unit"), Plain(" remaining).")>>

\* ---------------------------------------------------------------- C19
\* The exceptions after which the executor is said to try again.
RetryableErrors == {"ConnectionError", "TimeoutError", "OSError"}

\* C19: the retry executor invokes the wrapped call at most
\* EXTERNAL_API_MAX_RETRIES times; every invocation but the last ended in
\* a ConnectionError, TimeoutError or OSError, so nothing is tried again
\* after a success or another exception; and an execution that has started
\* always ends, returning the call's result or raising its error.
C19_RetryBoundedAndEnds ==
    /\ [](InRetry =>
            /\ Len(last.outcomes) <= 3
            /\ \A i \in 1..(Len(last.outcomes) - 1) : last.outcomes[i] \in RetryableErrors
            /\ last.pc \in {"calling", "sleeping"} =>
                    /\ Len(last.outcomes) < 3
                    /\ \A i \in 1..Len(last.outcomes) : last.outcomes[i] \in RetryableErrors
            /\ last.pc = "returned" => last.outcomes[Len(last.outcomes)] = "ok"
            /\ last.pc = "raised" => last.outcomes[Len(last.outcomes)] # "ok")
    /\ (InRetry /\ last.pc = "calling") ~> (InRetry /\ last.pc \in {"returned", "raised"})

\* The third attempt of an execution has failed like the two before it and
\* the execution has ended with that error.
C19_Witness ==
    /\ InRetry
    /\ last.pc = "raised"
    /\ Len(last.outcomes) = 3
    /\ last.outcomes[3] \in RetryableErrors

\* ---------------------------------------------------------------- C20
\* C20: however the fetches and updates of two transition requests for the
\* same reservation interleave, a status that a request changes goes along
\* a pair of the transition table, and a reservation in a terminal status
\* keeps it.
C20_RacingWritesFollowTable ==
    [][\A r \in RequestIds :
          (requests[r].pc = "fetched" /\ requests'[r].pc = "idle")
              => LET b == requests[r].booking_id
                 IN /\ bookings'[b].status # bookings[b].status
                        => <<bookings[b].status, bookings'[b].status>> \in LifecyclePairs
                    /\ bookings[b].status \in TerminalStatuses
                        => bookings'[b].status = bookings[b].status]_vars

\* ---------------------------------------------------------------- C21
\* The log rows that a booking_reminder rule left for a reservation: one
\* per reminder sent for it.
ReminderSends(b) ==
    {i \in DOMAIN logs :
        /\ rules[logs[i].rule_id].trigger = "booking_reminder"
        /\ logs[i].status = "success"
        /\ "booking_id" \in DOMAIN logs[i].trigger_payload
        /\ logs[i].trigger_payload.booking_id = b}

C22_AtMostOneExtraSend ==
    \A b \in DOMAIN bookings : Cardinality(ReminderSends(b)) <= 2

\* ---------------------------------------------------------------- C23
\* C23: a reservation carries the reminder marker only if a reminder rule
\* was executed for it with outcome success.
C23_MarkerOnlyAfterSuccess ==
    \A b \in DOMAIN bookings :
        ReminderSent(bookings[b].metadata) => ReminderSends(b) # {}

\* ---------------------------------------------------------------- C24
\* The successful distribute_form rows of the log.
FormEntries ==
    {i \in DOMAIN logs :
        /\ rules[logs[i].rule_id].action = "distribute_form"
        /\ logs[i].status = "success"
        /\ "form_id" \in DOMAIN logs[i].action_result}

\* The log rows that a form_submitted rule left for a pending-form
\* reminder of a distribute_form row: the reminder event alone carries the
\* form's address.
FormReminders(i) ==
    {k \in DOMAIN logs :
        /\ rules[logs[k].rule_id].trigger = "form_submitted"
        /\ "form_url" \in DOMAIN logs[k].trigger_payload
        /\ logs[k].trigger_payload.form_url = logs[i].action_result.form_id
        /\ logs[k].trigger_payload.contact_email = logs[i].trigger_payload.contact_email}

\* C24: over any sequence of ticks a successful distribute_form row is
\* reminded at most once.
C24_OneFormReminderPerEntry ==
    \A i \in FormEntries : Cardinality(FormReminders(i)) <= 1

\* ---------------------------------------------------------------- C25
\* The contacts a distribute_form row was sent to: its contact id when the
\* row names one, else the contacts of the workspace with its address.
EntrySubjects(i) ==
    {c \in ContactIds :
        /\ contacts[c].workspace_id = logs[i].workspace_id
        /\ IF "contact_id" \in DOMAIN logs[i].trigger_payload
           THEN c = logs[i].trigger_payload.contact_id
           ELSE contacts[c].email = logs[i].trigger_payload.contact_email}

\* C25: a tick fires a pending-form reminder for a distribute_form row only
\* if the subject of the row has not submitted the form, whatever event
\* wrote the row.
C25_NoReminderAfterSubmission ==
    [][last'.op = "tick"
          => \A k \in DOMAIN last'.formFired :
                LET i == last'.formFired[k]
                IN \A c \in EntrySubjects(i) :
                      <<logs[i].action_result.form_id, c>> \notin submissions]_vars

\* ---------------------------------------------------------------- C27
\* C27: the log rows a tick adds for form_submitted rules belong to rules
\* marked reminder-only: the reminder event of the scheduler executes no
\* other form_submitted rule.
C27_ReminderEventRunsReminderRulesOnly ==
    [][last'.op = "tick"
          => \A k \in (Len(logs) + 1)..Len(logs') :
                rules[logs'[k].rule_id].trigger = "form_submitted"
                    => rules[logs'[k].rule_id].action_config.is_reminder]_vars

\* ---------------------------------------------------------------- C26
\* The payload of a fire is flagged as a reminder.
Flagged(payload) == "_is_reminder" \in DOMAIN payload /\ payload["_is_reminder"] = TRUE

\* C26: a fire whose payload is not flagged as a reminder executes no rule
\* marked reminder-only and writes no log row for one, whatever the rule's
\* trigger name and active flag.
C26_ReminderOnlyRulesNeedFlag ==
    [][(last'.op = "fire" /\ ~Flagged(last'.payload))
          => \A i \in DOMAIN rules :
                rules[i].action_config.is_reminder
                    => /\ Occurrences(last'.executed, i) = 0
                       /\ \A k \in (Len(logs) + 1)..Len(logs') : logs'[k].rule_id # i]_vars

\* A form_submitted fire whose payload carries the flag as false ran the
\* unmarked rule of the trigger and left the active reminder-only rule
\* alone.
C26_Witness ==
    /\ last.op = "fire"
    /\ last.trigger = "form_submitted"
    /\ last.payload = [contact_email |-> "a@x", _is_reminder |-> FALSE]
    /\ Len(rules) = 2
    /\ rules[1].trigger = "form_submitted"
    /\ rules[1].is_active
    /\ rules[1].action_config.is_reminder
    /\ last.matched = <<1, 2>>
    /\ last.executed = <<2>>
    /\ Len(logs) = 1
    /\ logs[1].rule_id = 2

\* ---------------------------------------------------------------- C28
\* What an action returned says that the messaging collaborator did not
\* deliver.
DeliveryFailed(result) ==
    \/ "status" \in DOMAIN result /\ result.status = "error"
    \/ "success" \in DOMAIN result /\ result.success = FALSE

MessagingActions == {"send_email", "send_whatsapp", "distribute_form"}

\* C28: the log row of a send_email, send_whatsapp or distribute_form rule
\* whose delivery failed has outcome failure, and the other rules of the
\* same fire are still executed.
C28_FailedDeliveryLoggedFailure ==
    /\ \A k \in DOMAIN logs :
          (/\ rules[logs[k].rule_id].action \in MessagingActions
           /\ DeliveryFailed(logs[k].action_result))
              => logs[k].status = "failure"
    /\ (last.op = "fire" /\ ~last.gated)
          => \A i \in ActiveRuleIds(last.workspace_id, last.trigger) :
                ~(rules[i].action_config.is_reminder /\ ~Flagged(last.payload))
                    => Occurrences(last.executed, i) = 1

\* ---------------------------------------------------------------- C29
\* The calendar events that exist for a booking.
EventsOf(gcalSet, b) == {e \in gcalSet : e \div 10 = b}

\* C29: after a transition to cancelled with a working calendar, no
\* calendar event created for the booking is left, whether it was created
\* with the booking or on confirmation.
C29_CancelRemovesEveryEvent ==
    [][(/\ last'.op = "transition"
        /\ last'.raised = "none"
        /\ last'.to = CANCELLED
        /\ last'.gc = "ok")
          => EventsOf(gcal', last'.booking_id) = {}]_vars

\* ---------------------------------------------------------------- C30
\* C30: a transition to confirmed returns the booking confirmed, with
\* gcal_sync created when the calendar creates the event, skipped exactly
\* when the tenant has no calendar integration, and failed when the create
\* call of a connected calendar errors.
C30_GCalSyncTellsWhatHappened ==
    [][(/\ last'.op = "transition"
        /\ last'.raised = "none"
        /\ last'.to = CONFIRMED)
          => /\ last'.booking.status = CONFIRMED
             /\ last'.gc = "ok" => last'.side_effects.gcal_sync.status = "created"
             /\ last'.side_effects.gcal_sync.status = "skipped"
                    <=> last'.gc = "not_connected"
             /\ last'.gc = "api_error"
                    => last'.side_effects.gcal_sync.status = "failed"]_vars

\* ---------------------------------------------------------------- C31
\* C31: a fire for a tenant executes and logs only rules of that tenant
\* with the fired trigger name and the active flag set, and every log row
\* it writes carries the tenant.
C31_FireStaysInTenant ==
    [][last'.op = "fire"
          => /\ \A k \in DOMAIN last'.executed :
                   LET r == rules[last'.executed[k]]
                   IN /\ r.workspace_id = last'.workspace_id
                      /\ r.trigger = last'.trigger
                      /\ r.is_active
             /\ \A k \in (Len(logs) + 1)..Len(logs') :
                   /\ logs'[k].workspace_id = last'.workspace_id
                   /\ rules[logs'[k].rule_id].workspace_id = last'.workspace_id
                   /\ rules[logs'[k].rule_id].trigger = last'.trigger
                   /\ rules[logs'[k].rule_id].is_active]_vars

\* A fire in one tenant ran its own rule and left alone an active rule of
\* the other tenant on the same trigger: one log row, of the firing tenant.
C31_Witness ==
    /\ last.op = "fire"
    /\ ~last.gated
    /\ Len(rules) = 2
    /\ rules[1].workspace_id # last.workspace_id
    /\ rules[1].trigger = last.trigger
    /\ rules[1].is_active
    /\ rules[2].workspace_id = last.workspace_id
    /\ last.executed = <<2>>
    /\ Len(logs) = 1
    /\ logs[1].rule_id = 2
    /\ logs[1].workspace_id = last.workspace_id

\* ------------------------------------------------- pausing automation
\* A pause_automation rule next to a mail rule on one trigger; fires that
\* name a thread, a contact, or both, in either tenant.
PauseShapes ==
    {sh \in RuleShapes :
        /\ sh.trigger = "booking_confirmed" /\ sh.is_active
        /\ sh.action \in {"pause_automation", "send_email"}}

PausePayloads ==
    {[conversation_id |-> "v1"],
     [conversation_id |-> "v2", contact_id |-> "c1", contact_email |-> "a@x"],
     [contact_id |-> "c1", contact_email |-> "a@x"],
     [contact_id |-> "c2"],
     [contact_id |-> "c3", conversation_id |-> "v3"]}

\* trigger_automation with room for the rows of several fires.
TriggerAutomation(workspace_id, trigger, payload, chans) ==
    /\ Len(logs) <= MaxTickLogs
    /\ LET f == FireTrigger(workspace_id, trigger, payload, chans, logStatusIsEnum,
                            rules, logs, paused, now)
       IN /\ logs' = f.logs
          /\ paused' = f.paused
          /\ last' = [op |-> "fire", workspace_id |-> workspace_id,
                      trigger |-> trigger, payload |-> payload,
                      gated |-> f.gated, matched |-> f.matched,
                      executed |-> f.executed, raisedRules |-> f.raisedRules,
                      results |-> f.results, logsBefore |-> Len(logs),
                      raised |-> "none"]
    /\ UNCHANGED <<bookings, gcal, rules, submissions, now, logStatusIsEnum, inventory, task, requests, scans>>

NextPause ==
    \/ \E w \in Workspaces, shape \in PauseShapes : CreateRule(w, shape)
    \/ \E w \in Workspaces, p \in PausePayloads :
            TriggerAutomation(w, "booking_confirmed", p, QuietChans)
    \/ Tick(QuietChans, AnyFirstRow)

SpecPause == InitBooking /\ [][NextPause]_vars

\* The threads a pause_automation action has paused, read off the log.
PausedByRule ==
    {logs[k].action_result.conversation_id :
        k \in {i \in DOMAIN logs :
                 /\ "status" \in DOMAIN logs[i].action_result
                 /\ logs[i].action_result.status = "paused"}}

C33_NoReminderWhilePaused ==
    [][last'.op = "tick"
          => \A k \in DOMAIN last'.fired :
                LET row == bookings[last'.fired[k]]
                IN ~EngineIsAutomationPaused(paused, row.workspace_id, row.contact_id)]_vars

\* C34: once stop() has cancelled the task, the scheduler starts no tick
\* and its scans change nothing; while it runs, a tick is started only by
\* the end of a sleep and a finished tick is followed by a sleep, so the
\* ticks of the scheduler never overlap.
C34_StopEndsTicks ==
    [][/\ task = "cancelled"
            => /\ task' = "cancelled"
               /\ last'.op \notin {"tick", "wake"}
       /\ last'.op = "stop" => task' = "cancelled"
       /\ last'.op = "tick" => task = "ticking" /\ task' = "sleeping"
       /\ (task' = "ticking" /\ task # "ticking")
            => task \in {"startup", "sleeping"} /\ last'.op = "wake"]_vars
C34_Witness == task = "cancelled" /\ last.op = "advance" /\ 1 \in DOMAIN bookings /\ ReminderSent(bookings[1].metadata) /\ now = MaxTime

\* ------------------------------------------- concurrent booking creation
\* Booking-creation requests served by worker processes that share the
\* store: the conflict query and the insert of one request are two calls to
\* the store, and calls of other workers may come between them.
MaxRaceBookings == 2

CreateEndpoints == {"create_booking", "create_public_booking"}

\* create_booking / create_public_booking up to the conflict query: 404
\* for a contact of another workspace, 409 on a conflict, else the request
\* goes on to its insert.
CheckConflicts(r, endpoint, workspace_id, contact_id, starts_at) ==
    /\ requests[r].pc = "idle"
    /\ Len(bookings) < MaxRaceBookings
    /\ endpoint = "create_public_booking" => contacts[contact_id].workspace_id = workspace_id
    /\ IF contacts[contact_id].workspace_id # workspace_id
       THEN /\ last' = [op |-> endpoint, raised |-> "HTTP404"]
            /\ UNCHANGED requests
       ELSE IF Conflicts(bookings, workspace_id, starts_at, starts_at + TimeStep) # {}
       THEN /\ last' = [op |-> endpoint, raised |-> "HTTP409", rows |-> Len(bookings)]
            /\ UNCHANGED requests
       ELSE /\ requests' = [requests EXCEPT ![r] =
                               [pc |-> "checked", endpoint |-> endpoint,
                                workspace_id |-> workspace_id,
                                contact_id |-> contact_id,
                                starts_at |-> starts_at,
                                ends_at |-> starts_at + TimeStep]]
            /\ last' = [op |-> "conflict_query", request |-> r]
    /\ UNCHANGED <<bookings, gcal, rules, logs, paused, submissions, now,
                   logStatusIsEnum, inventory, task, scans>>

\* create_booking / create_public_booking from the insert on: the row
\* (status pending), the booking_confirmed trigger and the calendar event.
InsertBooking(r, chans, gc) ==
    /\ requests[r].pc = "checked"
    /\ Len(bookings) < MaxRaceBookings
    /\ LET req == requests[r]
           id == Len(bookings) + 1
           row == [workspace_id |-> req.workspace_id, contact_id |-> req.contact_id,
                   status |-> PENDING, starts_at |-> req.starts_at,
                   ends_at |-> req.ends_at,
                   notes |-> IF req.endpoint = "create_booking" THEN NoNotes ELSE "public",
                   metadata |-> <<>>, gcal_event_id |-> 0]
           payload == IF req.endpoint = "create_booking"
                      THEN CreatedPayload(id, req.contact_id, req.starts_at)
                      ELSE PublicPayload(id, req.contact_id, req.starts_at)
           f == FireTrigger(req.workspace_id, "booking_confirmed", payload, chans,
                            logStatusIsEnum, rules, logs, paused, now)
           ce == CreateEvent(Append(bookings, row), gcal, id, gc)
       IN /\ bookings' = ce.bookings
          /\ gcal' = ce.gcal
          /\ logs' = f.logs
          /\ paused' = f.paused
          /\ last' = [op |-> req.endpoint, raised |-> "none", booking_id |-> id]
    /\ requests' = [requests EXCEPT ![r] = IdleRequest]
    /\ UNCHANGED <<rules, submissions, now, logStatusIsEnum, inventory, task, scans>>

NextOverlap ==
    \/ \E r \in RequestIds, e \in CreateEndpoints, w \in Workspaces,
          c \in ContactIds, t \in Times :
            CheckConflicts(r, e, w, c, t)
    \/ \E r \in RequestIds : InsertBooking(r, QuietChans, "not_connected")
    \/ \E b \in BookingIds :
            /\ b \in DOMAIN bookings
            /\ TransitionBooking(bookings[b].workspace_id, b, CANCELLED, NoNotes, "not_connected")

SpecOverlap == InitBooking /\ [][NextOverlap]_vars

\* Two reservations overlap: a.start < b.end and a.end > b.start.
Overlap(a, b) == a.starts_at < b.ends_at /\ a.ends_at > b.starts_at

\* C35: after any interleaving of booking-creation requests no two
\* non-cancelled reservations of one tenant overlap.
C35_NoOverlappingReservations ==
    \A a, b \in DOMAIN bookings :
        (/\ a # b
         /\ bookings[a].workspace_id = bookings[b].workspace_id
         /\ bookings[a].status # CANCELLED
         /\ bookings[b].status # CANCELLED)
            => ~Overlap(bookings[a], bookings[b])

\* The slots of a result, as a set.
SlotSet(slots) == {slots[k] : k \in DOMAIN slots}

\* The blocks a day is open for: the rows marked open, or 09:00-17:00 on
\* Monday to Friday when the table has no row for the weekday.
BlocksOfDay(rows, day) ==
    IF rows = <<>>
    THEN IF Weekday(day) < 5
         THEN {[open_time |-> DefaultOpen, close_time |-> DefaultClose]}
         ELSE {}
    ELSE {[open_time |-> rows[i].open_time, close_time |-> rows[i].close_time] :
             i \in {j \in DOMAIN rows : rows[j].is_open}}

\* The candidates of a block: open + k * duration, ending by the close.
CandidatesOf(block, day, slot_duration) ==
    {c \in {[starts_at |-> DayStart(day) + block.open_time + k * slot_duration,
             ends_at |-> DayStart(day) + block.open_time + (k + 1) * slot_duration] :
                k \in 0..HoursPerDay} :
        c.ends_at <= DayStart(day) + block.close_time}

\* C36: slot computation returns exactly the candidates of the open blocks
\* of the day (09:00-17:00 on a weekday without business-hours rows, none
\* on a weekend day without rows) that do not start before the instant of
\* the computation and overlap no non-cancelled reservation of the tenant.
C36_ExactlyTheFreeCandidates ==
    last.op = "slots"
        => SlotSet(last.slots) =
              {c \in UNION {CandidatesOf(bl, last.day, last.slot_duration) :
                               bl \in BlocksOfDay(last.rows, last.day)} :
                  /\ c.starts_at >= last.at
                  /\ \A b \in DOMAIN bookings :
                        (/\ bookings[b].workspace_id = last.workspace_id
                         /\ bookings[b].status # CANCELLED)
                            => ~Overlap(c, bookings[b])}

\* ------------------------------------------- the slot loop, step by step
\* get_available_slots with the for loop over the blocks and the while
\* loop over the candidates taken one iteration at a time. The slot
\* duration is whatever the settings of the workspace hold and the open and
\* close times of a block come in either order. The loop state is kept in
\* last; iter counts the iterations of the while loop modulo IterWrap.
MaxLoopSlots == 4
IterWrap == 2
\* The earliest instant a datetime can hold (datetime.min): going below it
\* raises OverflowError.
DatetimeMin == 0 - 4

LoopDurations == {0 - 1, 0, 1, 2}
LoopBusinessHours ==
    {<<[open_time |-> 0, close_time |-> 4, is_open |-> TRUE]>>,
     <<[open_time |-> 4, close_time |-> 0, is_open |-> TRUE]>>,
     <<[open_time |-> 1, close_time |-> 3, is_open |-> TRUE],
       [open_time |-> 9, close_time |-> 11, is_open |-> TRUE]>>}

\* get_available_slots up to the for loop: the settings, the day, the
\* business-hours rows and the bookings query.
SlotsBegin(workspace_id, day, rows, slot_duration) ==
    /\ ~(last.op = "slot_loop" /\ last.pc \in {"for", "while"})
    /\ last' = [op |-> "slot_loop", pc |-> "for", workspace_id |-> workspace_id,
                day |-> day, slot_duration |-> slot_duration, at |-> now,
                blocks |-> OpenBlocks(rows, day),
                existing |-> ExistingBookings(bookings, workspace_id, day),
                current |-> 0, block_end |-> 0, slots |-> <<>>, iter |-> 0]
    /\ UNCHANGED <<bookings, gcal, rules, logs, paused, submissions, now,
                   logStatusIsEnum, inventory, task, requests, scans>>

\* The slots list after an append (the list is not followed beyond
\* MaxLoopSlots entries).
SlotsAppend(slots, slot) == IF Len(slots) < MaxLoopSlots THEN Append(slots, slot) ELSE slots

\* One step of the loops: the for loop takes the next block or returns;
\* the while loop tests its condition and runs one iteration.
SlotsStep ==
    /\ last.op = "slot_loop"
    /\ last.pc \in {"for", "while"}
    /\ LET d == last.slot_duration
           slot_end == last.current + d
       IN IF last.pc = "for"
          THEN IF last.blocks = <<>>
               THEN last' = [last EXCEPT !.pc = "returned"]
               ELSE last' = [last EXCEPT
                               !.pc = "while",
                               !.current = DayStart(last.day) + Head(last.blocks).open_time,
                               !.block_end = DayStart(last.day) + Head(last.blocks).close_time,
                               !.blocks = Tail(last.blocks)]
          ELSE IF slot_end < DatetimeMin
               THEN last' = [last EXCEPT !.pc = "raised"]
          ELSE IF ~(slot_end <= last.block_end)
               THEN last' = [last EXCEPT !.pc = "for"]
          ELSE IF last.current < last.at
               THEN last' = [last EXCEPT !.current = slot_end,
                                         !.iter = (last.iter + 1) % IterWrap]
          ELSE IF \E b \in last.existing :
                     last.current < bookings[b].ends_at /\ slot_end > bookings[b].starts_at
               THEN last' = [last EXCEPT !.current = slot_end,
                                         !.iter = (last.iter + 1) % IterWrap]
          ELSE last' = [last EXCEPT
                          !.slots = SlotsAppend(last.slots,
                                                [starts_at |-> last.current,
                                                 ends_at |-> slot_end]),
                          !.current = slot_end,
                          !.iter = (last.iter + 1) % IterWrap]
    /\ UNCHANGED <<bookings, gcal, rules, logs, paused, submissions, now,
                   logStatusIsEnum, inventory, task, requests, scans>>

NextSlotLoop ==
    \/ \E rows \in LoopBusinessHours, dur \in LoopDurations :
            SlotsBegin("w1", 1, rows, dur)
    \/ SlotsStep

\* A computation that has begun goes on: the handler runs to its end.
SpecSlotLoop == InitSlots /\ [][NextSlotLoop]_vars /\ WF_vars(SlotsStep)

\* C37: a slot computation that has begun returns its sequence, whatever
\* the slot duration and the order of open and close.
C37_SlotsTerminate ==
    [](last.op = "slot_loop" => <>(last.op = "slot_loop" /\ last.pc = "returned"))

\* C38: a tick sends a reminder only for a reservation that is Confirmed
\* and starts at or after the instant of the tick and before that instant
\* plus 24 hours.
C38_ReminderWindowHalfOpen ==
    [][last'.op = "tick"
          => \A k \in DOMAIN last'.fired :
                LET row == bookings[last'.fired[k]]
                IN /\ row.status = CONFIRMED
                   /\ row.starts_at >= now
                   /\ row.starts_at < now + ReminderWindowHours]_vars

\* ------------------------------------------------ inventory of a service
\* create_booking / create_public_booking for a request that names a
\* service: the row carries the service, and the stock of the items the
\* service uses is deducted right after the insert.
CreateServiceBooking(endpoint, workspace_id, contact_id, service_id, starts_at, chans, gc) ==
    /\ Len(bookings) < MaxBookings
    /\ endpoint = "create_public_booking" => contacts[contact_id].workspace_id = workspace_id
    /\ LET ends_at == starts_at + TimeStep
           id == Len(bookings) + 1
           row == [workspace_id |-> workspace_id, contact_id |-> contact_id,
                   status |-> PENDING, starts_at |-> starts_at, ends_at |-> ends_at,
                   notes |-> IF endpoint = "create_booking" THEN NoNotes ELSE "public",
                   metadata |-> <<>>, gcal_event_id |-> 0, service_id |-> service_id]
           payload == IF endpoint = "create_booking"
                      THEN CreatedPayload(id, contact_id, starts_at)
                      ELSE PublicPayload(id, contact_id, starts_at)
       IN IF contacts[contact_id].workspace_id # workspace_id
          THEN /\ last' = [op |-> endpoint, raised |-> "HTTP404"]
               /\ UNCHANGED <<bookings, gcal, logs, paused, inventory>>
          ELSE IF Conflicts(bookings, workspace_id, starts_at, ends_at) # {}
          THEN /\ last' = [op |-> endpoint, raised |-> "HTTP409"]
               /\ UNCHANGED <<bookings, gcal, logs, paused, inventory>>
          ELSE LET f == FireTrigger(workspace_id, "booking_confirmed", payload,
                                    chans, logStatusIsEnum, rules, logs, paused, now)
                   ce == CreateEvent(Append(bookings, row), gcal, id, gc)
               IN /\ bookings' = ce.bookings
                  /\ gcal' = ce.gcal
                  /\ logs' = f.logs
                  /\ paused' = f.paused
                  /\ inventory' = IF service_id = NoService THEN inventory
                                  ELSE DeductInventoryForService(inventory,
                                                                 ServiceInventory[service_id])
                  /\ last' = [op |-> endpoint, raised |-> "none", booking_id |-> id,
                              service_id |-> service_id]
    /\ UNCHANGED <<rules, submissions, now, logStatusIsEnum, task, requests, scans>>

NextInventory ==
    \/ \E e \in CreateEndpoints, c \in ContactIds, sv \in ServiceIds \cup {NoService},
          t \in Times, gc \in {"ok", "not_connected"} :
            CreateServiceBooking(e, "w1", c, sv, t, QuietChans, gc)
    \/ \E b \in BookingIds, tgt \in BookingStatus, gc \in {"ok", "not_connected"} :
            GCalRead(tgt, gc) /\ TransitionBooking("w1", b, tgt, NoNotes, gc)
    \/ ListBookings("w1")
    \/ AdvanceTime
    \/ Tick(QuietChans, AnyFirstRow)

SpecInventory == InitBooking /\ [][NextInventory]_vars

\* What one creation with a service takes off an item.
UsedPerBooking(service_id, item_id) ==
    IF service_id = NoService THEN 0
    ELSE LET links == ServiceInventory[service_id]
             hits == {k \in DOMAIN links : links[k].item_id = item_id}
         IN IF hits = {} THEN 0 ELSE links[CHOOSE k \in hits : TRUE].qty_per_use

\* C39: a transition to Completed or NoShow (and the batch completion of
\* past bookings) leaves every inventory quantity, the calendar and the
\* reservation's event id unchanged; the stock of the items of a booked
\* service goes down once, by the creation of the booking, and by no other
\* step.
C39_InventoryDeductedAtCreation ==
    [][/\ (last'.op = "transition" /\ last'.raised = "none"
            /\ last'.to \in {COMPLETED, NO_SHOW})
             => /\ inventory' = inventory
                /\ gcal' = gcal
                /\ bookings'[last'.booking_id].gcal_event_id
                      = bookings[last'.booking_id].gcal_event_id
       /\ last'.op = "list_bookings"
             => /\ inventory' = inventory
                /\ gcal' = gcal
                /\ \A b \in DOMAIN bookings :
                      bookings'[b].gcal_event_id = bookings[b].gcal_event_id
       /\ (last'.op \in CreateEndpoints /\ last'.raised = "none")
             => \A i \in ItemIds :
                   inventory'[i] =
                      IF inventory[i] - UsedPerBooking(last'.service_id, i) > 0
                      THEN inventory[i] - UsedPerBooking(last'.service_id, i)
                      ELSE 0
       /\ ~(last'.op \in CreateEndpoints /\ last'.raised = "none")
             => inventory' = inventory]_vars
C39_Witness == last.op = "transition" /\ last.raised = "none" /\ last.to \in {COMPLETED, NO_SHOW} /\ last.booking_id \in DOMAIN bookings /\ bookings[last.booking_id].service_id = "s1" /\ bookings[last.booking_id].gcal_event_id # 0 /\ inventory["i1"] = 1 /\ inventory["i2"] = 0

\* C40: an execution whose every attempt failed with a retryable error
\* raises ExternalServiceError, not the raw exception of the last attempt.
C40_ExhaustedRaisesServiceError ==
    (/\ InRetry
     /\ last.pc = "raised"
     /\ Len(last.outcomes) = EXTERNAL_API_MAX_RETRIES
     /\ \A i \in DOMAIN last.outcomes : last.outcomes[i] \in RetryableErrors)
        => last.raises = "ExternalServiceError"

====
